---- MODULE Spec2Model ----
(***************************************************************************)
(* India Air Insights: the reconciliation engine of src/lib/aqi-utils.ts   *)
(* (analyzeAgreement, calculateDerivedAQI) as a state machine over the     *)
(* reading collection handed to it, with the arithmetic of the JavaScript  *)
(* number type (IEEE-754 binary64) reproduced bit for bit.                 *)
(***************************************************************************)
EXTENDS Integers, Sequences, FiniteSets, TLC

(***************************************************************************)
(* Natural numbers of any size: little-endian sequences of 14-bit limbs.   *)
(* They carry the 53-bit significands of the doubles and the exact         *)
(* intermediate results that are then rounded to nearest, ties to even.    *)
(***************************************************************************)
LimbBits == 14

MantBits == 53

LimbBase == 2^LimbBits

Max2(a, b) == IF a >= b THEN a ELSE b

BLimb(a, i) == IF i >= 1 /\ i <= Len(a) THEN a[i] ELSE 0

BIsZero(a) == \A i \in 1..Len(a) : a[i] = 0

RECURSIVE BAddC(_, _, _, _, _)
BAddC(a, b, i, c, acc) ==
    IF i > Max2(Len(a), Len(b))
    THEN (IF c = 0 THEN acc ELSE Append(acc, c))
    ELSE LET s == BLimb(a, i) + BLimb(b, i) + c
         IN  BAddC(a, b, i + 1, s \div LimbBase, Append(acc, s % LimbBase))

BAdd(a, b) == BAddC(a, b, 1, 0, <<>>)

RECURSIVE BCmpFrom(_, _, _)
BCmpFrom(a, b, i) ==
    IF i = 0 THEN 0
    ELSE IF BLimb(a, i) > BLimb(b, i) THEN 1
    ELSE IF BLimb(a, i) < BLimb(b, i) THEN -1
    ELSE BCmpFrom(a, b, i - 1)

\* -1, 0, 1 as a < b, a = b, a > b
BCmp(a, b) == BCmpFrom(a, b, Max2(Len(a), Len(b)))

RECURSIVE BColSum(_, _, _, _)
BColSum(a, b, k, i) ==
    IF i > Len(a) THEN 0
    ELSE a[i] * BLimb(b, k - i + 1) + BColSum(a, b, k, i + 1)

RECURSIVE BMulC(_, _, _, _, _)
BMulC(a, b, k, c, acc) ==
    IF k > Len(a) + Len(b)
    THEN acc
    ELSE LET s == BColSum(a, b, k, 1) + c
         IN  BMulC(a, b, k + 1, s \div LimbBase, Append(acc, s % LimbBase))

BMul(a, b) == BMulC(a, b, 1, 0, <<>>)

RECURSIVE BZeros(_)
BZeros(n) == IF n = 0 THEN <<>> ELSE Append(BZeros(n - 1), 0)

\* a * 2^k
BShl(a, k) == BZeros(k \div LimbBits) \o BMul(a, <<2^(k % LimbBits)>>)

RECURSIVE BShrC(_, _, _, _)
BShrC(t, r, i, acc) ==
    IF i > Len(t) THEN acc
    ELSE BShrC(t, r, i + 1,
               Append(acc, (t[i] \div (2^r))
                           + (BLimb(t, i + 1) % (2^r)) * (2^(LimbBits - r))))

\* floor(a / 2^k)
BShr(a, k) ==
    IF k \div LimbBits >= Len(a) THEN <<>>
    ELSE BShrC(SubSeq(a, (k \div LimbBits) + 1, Len(a)), k % LimbBits, 1, <<>>)

\* bit k (bit 0 is the lowest) of a
BBit(a, k) == (BLimb(a, (k \div LimbBits) + 1) \div (2^(k % LimbBits))) % 2

\* some bit among the k lowest bits of a is set
BLowNonzero(a, k) ==
    \/ \E i \in 1..(k \div LimbBits) : BLimb(a, i) # 0
    \/ BLimb(a, (k \div LimbBits) + 1) % (2^(k % LimbBits)) # 0

RECURSIVE IntBitLen(_)
IntBitLen(n) == IF n = 0 THEN 0 ELSE 1 + IntBitLen(n \div 2)

RECURSIVE BTop(_, _)
BTop(a, i) ==
    IF i = 0 THEN 0
    ELSE IF a[i] = 0 THEN BTop(a, i - 1)
    ELSE (i - 1) * LimbBits + IntBitLen(a[i])

\* number of significant bits of a
BBitLen(a) == BTop(a, Len(a))

BFromInt(n) ==
    <<n % LimbBase, (n \div LimbBase) % LimbBase, n \div (LimbBase * LimbBase)>>

\* a as an integer, for a < 2^31
BToInt(a) == BLimb(a, 1) + BLimb(a, 2) * LimbBase + BLimb(a, 3) * LimbBase * LimbBase

(***************************************************************************)
(* The JavaScript number type.  A non-negative double is                   *)
(* [m |-> significand, e |-> exponent] with value m * 2^e and              *)
(* 2^52 <= m < 2^53, or zero.  Every value of the reconciliation engine    *)
(* lies in [0, 2^31), far from the subnormal and overflow ranges.          *)
(***************************************************************************)
DZero == [m |-> <<0, 0, 0, 0>>, e |-> 0]

DIsZero(x) == BIsZero(x.m)

\* a on 4 limbs, for a < 2^56
BFix4(a) == <<BLimb(a, 1), BLimb(a, 2), BLimb(a, 3), BLimb(a, 4)>>

\* (n + f) * 2^e, 0 <= f < 1 and f > 0 iff sticky, rounded to nearest double,
\* ties to even
DRound(n, e, sticky) ==
    LET len == BBitLen(n)
    IN  IF len = 0 THEN DZero
        ELSE IF len <= MantBits
        THEN [m |-> BFix4(BShl(n, MantBits - len)), e |-> e - (MantBits - len)]
        ELSE LET k     == len - MantBits
                 q     == BShr(n, k)
                 guard == BBit(n, k - 1) = 1
                 rest  == sticky \/ BLowNonzero(n, k - 1)
                 odd   == BBit(q, 0) = 1
                 q1    == IF guard /\ (rest \/ odd) THEN BAdd(q, <<1>>) ELSE q
             IN  IF BBitLen(q1) > MantBits
                 THEN [m |-> BFix4(BShr(q1, 1)), e |-> e + k + 1]
                 ELSE [m |-> BFix4(q1), e |-> e + k]

\* the double of an integer 0 <= n < 2^31 (exact)
DInt(n) == DRound(BFromInt(n), 0, FALSE)

\* x * y
DMul(x, y) ==
    IF DIsZero(x) \/ DIsZero(y) THEN DZero
    ELSE DRound(BMul(x.m, y.m), x.e + y.e, FALSE)

\* x + y
DAdd(x, y) ==
    IF DIsZero(x) THEN y
    ELSE IF DIsZero(y) THEN x
    ELSE LET e == IF x.e <= y.e THEN x.e ELSE y.e
         IN  DRound(BAdd(BShl(x.m, x.e - e), BShl(y.m, y.e - e)), e, FALSE)

RECURSIVE BSubC(_, _, _, _, _)
BSubC(a, b, i, c, acc) ==
    IF i > Len(a) THEN acc
    ELSE LET t == BLimb(a, i) - BLimb(b, i) - c
         IN  BSubC(a, b, i + 1, IF t < 0 THEN 1 ELSE 0,
                   Append(acc, IF t < 0 THEN t + LimbBase ELSE t))

\* a - b for a >= b
BSub(a, b) == BSubC(a, b, 1, 0, <<>>)

\* x - y for x >= y
DSub(x, y) ==
    IF DIsZero(y) THEN x
    ELSE LET e == IF x.e <= y.e THEN x.e ELSE y.e
         IN  DRound(BSub(BShl(x.m, x.e - e), BShl(y.m, y.e - e)), e, FALSE)

\* the integer made of the limbs 3.. of a, i.e. floor(a / 2^28), for a < 2^59
BHigh(a) == BLimb(a, 3) + BLimb(a, 4) * LimbBase + BLimb(a, 5) * LimbBase * LimbBase

\* a * s on 5 limbs, for a * s < 2^70 and s < 2^14
B5Scale(a, s) ==
    LET c1 == BLimb(a, 1) * s
        c2 == BLimb(a, 2) * s + c1 \div LimbBase
        c3 == BLimb(a, 3) * s + c2 \div LimbBase
        c4 == BLimb(a, 4) * s + c3 \div LimbBase
        c5 == BLimb(a, 5) * s + c4 \div LimbBase
    IN  <<c1 % LimbBase, c2 % LimbBase, c3 % LimbBase, c4 % LimbBase, c5 % LimbBase>>

\* a - b on 4 limbs, for 0 <= a - b < 2^56
B4Sub(a, b) ==
    LET d1 == BLimb(a, 1) - BLimb(b, 1)
        d2 == BLimb(a, 2) - BLimb(b, 2) - (IF d1 < 0 THEN 1 ELSE 0)
        d3 == BLimb(a, 3) - BLimb(b, 3) - (IF d2 < 0 THEN 1 ELSE 0)
        d4 == BLimb(a, 4) - BLimb(b, 4) - (IF d3 < 0 THEN 1 ELSE 0)
    IN  <<IF d1 < 0 THEN d1 + LimbBase ELSE d1, IF d2 < 0 THEN d2 + LimbBase ELSE d2,
          IF d3 < 0 THEN d3 + LimbBase ELSE d3, IF d4 < 0 THEN d4 + LimbBase ELSE d4>>

\* one step of long division in radix 16: qr = <<quotient, remainder>> with
\* remainder < d, 2^52 <= d < 2^53.  The leading limbs estimate the digit
\* within one; the exact products decide.
DDivStep(qr, d) ==
    LET r16 == B5Scale(qr[2], 16)
        est == BHigh(r16) \div BHigh(d)
        k   == IF BCmp(B5Scale(d, est), r16) > 0 THEN est - 1
               ELSE IF BCmp(B5Scale(d, est + 1), r16) > 0 THEN est
               ELSE est + 1
        q16 == B5Scale(qr[1], 16)
    IN  <<<<q16[1] + k, q16[2], q16[3], q16[4], q16[5]>>, B4Sub(r16, B5Scale(d, k))>>

\* n further quotient digits; each step is carried out before the next begins
RECURSIVE DDivDigits(_, _, _)
DDivDigits(qr, d, n) ==
    IF n = 0 THEN qr
    ELSE LET nx == DDivStep(qr, d)
         IN  IF Len(nx[1]) = 5 /\ Len(nx[2]) = 4 THEN DDivDigits(nx, d, n - 1) ELSE nx

\* x / y for y > 0: 14 hexadecimal quotient digits (57 bits with the leading
\* one) and the remainder decide the rounding
DDiv(x, y) ==
    IF DIsZero(x) THEN DZero
    ELSE LET ge == BCmp(x.m, y.m) >= 0
             qr == DDivDigits(<<IF ge THEN <<1>> ELSE <<0>>,
                                IF ge THEN B4Sub(x.m, y.m) ELSE x.m>>, y.m, 14)
         IN  DRound(qr[1], x.e - y.e - 56, ~BIsZero(qr[2]))

\* x < y
DLess(x, y) ==
    IF DIsZero(y) THEN FALSE
    ELSE IF DIsZero(x) THEN TRUE
    ELSE x.e < y.e \/ (x.e = y.e /\ BCmp(x.m, y.m) < 0)

\* |x - y|
DDistance(x, y) == IF DLess(x, y) THEN DSub(y, x) ELSE DSub(x, y)

\* the double nearest to the decimal literal num/den
DLit(num, den) == DDiv(DInt(num), DInt(den))

\* Math.round: the integer nearest to x, halves rounded up
MathRound(x) ==
    IF DIsZero(x) THEN 0
    ELSE IF x.e >= 0 THEN BToInt(BShl(x.m, x.e))
    ELSE BToInt(BShr(x.m, 0 - x.e)) + BBit(x.m, (0 - x.e) - 1)

\* Number.prototype.toFixed(2) and its like: the integer nearest to x * scale,
\* halves rounded up, taken on the exact value of the double x < 2^17
DScaled(x, scale) ==
    IF DIsZero(x) THEN 0
    ELSE LET n == BMul(x.m, <<scale>>)
         IN  IF x.e >= 0 THEN BToInt(BShl(n, x.e))
             ELSE BToInt(BShr(n, 0 - x.e)) + BBit(n, (0 - x.e) - 1)

(***************************************************************************)
(* The numeric literals of calculateDerivedAQI, as the doubles the         *)
(* JavaScript parser makes of them: the double nearest to the decimal,     *)
(* which is DLit(12, 10) for 1.2 and so on.  1.2, 0.6 and 0.3 share the    *)
(* significand 0x13333333333333, 0.4 and 0.8 share 0x1999999999999A, and   *)
(* 0.7 has 0x16666666666666.                                               *)
(***************************************************************************)
Lit_1 == [m |-> <<0, 0, 0, 1024>>, e |-> -52]

Lit_1_2 == [m |-> <<13107, 3276, 13107, 1228>>, e |-> -52]

Lit_1_0 == [m |-> <<0, 0, 0, 1024>>, e |-> -52]

Lit_0_6 == [m |-> <<13107, 3276, 13107, 1228>>, e |-> -53]

Lit_0_3 == [m |-> <<13107, 3276, 13107, 1228>>, e |-> -54]

Lit_0_7 == [m |-> <<9830, 6553, 9830, 1433>>, e |-> -53]

Lit_0_4 == [m |-> <<6554, 9830, 6553, 1638>>, e |-> -54]

Lit_0_8 == [m |-> <<6554, 9830, 6553, 1638>>, e |-> -53]

Lit_0_5 == [m |-> <<0, 0, 0, 1024>>, e |-> -53]

Lit_100 == [m |-> <<0, 0, 0, 1600>>, e |-> -46]

(***************************************************************************)
(* AQIReading: [source, aqi, freshness, confidence].  aqi is a number or   *)
(* null; Null stands for null and no AQI is negative.                      *)
(***************************************************************************)
Null == -1

DataSource == {"GOVERNMENT", "INTERNATIONAL", "HISTORICAL", "IOT_SENSOR"}

FreshnessStatus == {"fresh", "aging", "stale", "unavailable"}

ConfidenceLevel == {"high", "medium", "low", "uncalibrated"}

Reading(source, aqi, freshness, confidence) ==
    [source |-> source, aqi |-> aqi, freshness |-> freshness, confidence |-> confidence]

\* a filter that looks at the aqi alone
validReadingsByAqi(rs) == SelectSeq(rs, LAMBDA r : r.aqi # Null)

\* readings.filter(r => r.aqi !== null && r.freshness !== 'unavailable')
validReadings(rs) ==
    SelectSeq(rs, LAMBDA r : r.aqi # Null /\ r.freshness # "unavailable")

(***************************************************************************)
(* analyzeAgreement                                                        *)
(***************************************************************************)
RECURSIVE aqiValuesOf(_)
\* validReadings.map(r => r.aqi as number)
aqiValuesOf(valid) ==
    IF Len(valid) = 0 THEN <<>>
    ELSE <<valid[1].aqi>> \o aqiValuesOf(Tail(valid))

RECURSIVE MathMax(_)
MathMax(xs) ==
    IF Len(xs) = 1 THEN xs[1]
    ELSE LET m == MathMax(Tail(xs)) IN IF xs[1] >= m THEN xs[1] ELSE m

RECURSIVE MathMin(_)
MathMin(xs) ==
    IF Len(xs) = 1 THEN xs[1]
    ELSE LET m == MathMin(Tail(xs)) IN IF xs[1] <= m THEN xs[1] ELSE m

\* the distance between the first and the last value
spreadFirstToLast(aqiValues) ==
    IF aqiValues[1] >= aqiValues[Len(aqiValues)]
    THEN aqiValues[1] - aqiValues[Len(aqiValues)]
    ELSE aqiValues[Len(aqiValues)] - aqiValues[1]

\* max - min
spreadOf(aqiValues) == MathMax(aqiValues) - MathMin(aqiValues)

RECURSIVE SumOf(_)
\* aqiValues.reduce((a, b) => a + b, 0): a sum of integers, exact in doubles
SumOf(xs) == IF Len(xs) = 0 THEN 0 ELSE xs[1] + SumOf(Tail(xs))

RECURSIVE SquaredDeviations(_, _, _)
\* the sum over val of (n * val - sum)^2, which is n^2 times the sum of the
\* squared distances to the mean sum / n
SquaredDeviations(xs, n, sum) ==
    IF Len(xs) = 0 THEN 0
    ELSE (n * xs[1] - sum) * (n * xs[1] - sum) + SquaredDeviations(Tail(xs), n, sum)

\* a deviation that divides by n - 1: n * sum of (n * val - sum)^2 against
\* limit^2 * n^3 * (n - 1)
stdDevOfSampleAtMost(aqiValues, limit) ==
    LET n == Len(aqiValues)
    IN  n * SquaredDeviations(aqiValues, n, SumOf(aqiValues))
            <= limit * limit * n * n * n * (n - 1)

\* stdDev <= limit, for stdDev = sqrt(sum of (val - mean)^2 / n): the same as
\* sum of (n * val - sum)^2 <= limit^2 * n^3.  The doubles of the code decide
\* as the exact numbers do: the two sides are equal only when every value is
\* at distance limit from the mean, where mean, squares, quotient and root are
\* exact doubles, and otherwise differ by far more than the rounding error.
stdDevAtMost(aqiValues, limit) ==
    LET n == Len(aqiValues)
    IN  SquaredDeviations(aqiValues, n, SumOf(aqiValues)) <= limit * limit * n * n * n

\* aqiValues.reduce((a, b) => a + b, 0) / aqiValues.length
meanOf(aqiValues) == DDiv(DInt(SumOf(aqiValues)), DInt(Len(aqiValues)))

RECURSIVE squaresFrom(_, _, _)
\* reduce((sum, val) => sum + Math.pow(val - mean, 2), sum): the power 2 is
\* the product of the difference with itself
squaresFrom(aqiValues, mean, sum) ==
    IF Len(aqiValues) = 0 THEN sum
    ELSE LET d == DDistance(DInt(aqiValues[1]), mean)
         IN  squaresFrom(Tail(aqiValues), mean, DAdd(sum, DMul(d, d)))

\* the variance as the code computes it, in doubles
varianceOf(aqiValues) ==
    DDiv(squaresFrom(aqiValues, meanOf(aqiValues), DZero), DInt(Len(aqiValues)))

\* The greatest double whose square root, rounded to the nearest double, is
\* at most the limit: 100 + 2^-46 for the limit 10 (the root of 100 + 2^-46
\* is 10 + 0.4 ulp and rounds to 10, that of 100 + 2^-45 rounds above 10) and
\* 625 for the limit 25 (the root of 625 + 2^-43 is 25 + 0.64 ulp).
greatestVarianceFor(limit) ==
    IF limit = 10 THEN [m |-> <<1, 0, 0, 1600>>, e |-> -46]
    ELSE [m |-> <<0, 0, 0, 1250>>, e |-> -43]

\* Math.sqrt(variance) <= limit, for the limits 10 and 25
sqrtAtMost(variance, limit) == ~DLess(greatestVarianceFor(limit), variance)

Explanation(text, source, spread) ==
    [text |-> text, source |-> source, spread |-> spread]

\* a classification whose first test asks for a spread of 20 or more
agreementLevelFromTwenty(aqiValues) ==
    LET spread == spreadOf(aqiValues)
    IN  IF spread >= 20 /\ stdDevAtMost(aqiValues, 10)
        THEN [level |-> "high", spread |-> spread,
              explanation |-> Explanation(
                  "Sources agree within ${spread} AQI points. High confidence in data.",
                  "", spread)]
        ELSE IF spread <= 50 /\ stdDevAtMost(aqiValues, 25)
        THEN [level |-> "partial", spread |-> spread,
              explanation |-> Explanation(
                  "Sources differ by ${spread} AQI points. Possible local variations or measurement timing differences.",
                  "", spread)]
        ELSE [level |-> "outlier", spread |-> spread,
              explanation |-> Explanation(
                  "Significant disagreement (spread: ${spread}). Possible sensor calibration issues, local hotspots, or data staleness.",
                  "", spread)]

\* a classification whose bounds on the spread are exclusive
agreementLevelExclusive(aqiValues) ==
    LET spread == spreadOf(aqiValues)
    IN  IF spread < 20 /\ stdDevAtMost(aqiValues, 10)
        THEN [level |-> "high", spread |-> spread,
              explanation |-> Explanation(
                  "Sources agree within ${spread} AQI points. High confidence in data.",
                  "", spread)]
        ELSE IF spread < 50 /\ stdDevAtMost(aqiValues, 25)
        THEN [level |-> "partial", spread |-> spread,
              explanation |-> Explanation(
                  "Sources differ by ${spread} AQI points. Possible local variations or measurement timing differences.",
                  "", spread)]
        ELSE [level |-> "outlier", spread |-> spread,
              explanation |-> Explanation(
                  "Significant disagreement (spread: ${spread}). Possible sensor calibration issues, local hotspots, or data staleness.",
                  "", spread)]

\* the classification of two or more values
agreementLevel(aqiValues) ==
    LET spread == spreadOf(aqiValues)
    IN  IF spread <= 20 /\ stdDevAtMost(aqiValues, 10)
        THEN [level |-> "high", spread |-> spread,
              explanation |-> Explanation(
                  "Sources agree within ${spread} AQI points. High confidence in data.",
                  "", spread)]
        ELSE IF spread <= 50 /\ stdDevAtMost(aqiValues, 25)
        THEN [level |-> "partial", spread |-> spread,
              explanation |-> Explanation(
                  "Sources differ by ${spread} AQI points. Possible local variations or measurement timing differences.",
                  "", spread)]
        ELSE [level |-> "outlier", spread |-> spread,
              explanation |-> Explanation(
                  "Significant disagreement (spread: ${spread}). Possible sensor calibration issues, local hotspots, or data staleness.",
                  "", spread)]

\* an analysis without the case of a single usable reading
analyzeAgreementOfAny(rs) ==
    LET valid == validReadings(rs)
    IN  IF Len(valid) = 0
        THEN [level |-> "insufficient", spread |-> Null,
              explanation |-> Explanation("No valid data available from any source.",
                                          "", Null)]
        ELSE agreementLevel(aqiValuesOf(valid))

analyzeAgreement(rs) ==
    LET valid == validReadings(rs)
    IN  IF Len(valid) = 0
        THEN [level |-> "insufficient", spread |-> Null,
              explanation |-> Explanation("No valid data available from any source.",
                                          "", Null)]
        ELSE IF Len(valid) = 1
        THEN [level |-> "insufficient", spread |-> Null,
              explanation |-> Explanation(
                  "Only ${validReadings[0].source} data available. Cannot cross-validate.",
                  valid[1].source, Null)]
        ELSE agreementLevel(aqiValuesOf(valid))

(***************************************************************************)
(* calculateDerivedAQI                                                     *)
(***************************************************************************)
\* switch (r.source): a value no case names leaves the weight as it is
sourceWeight(weight, source) ==
    CASE source = "GOVERNMENT"    -> DMul(weight, Lit_1_2)
      [] source = "INTERNATIONAL" -> DMul(weight, Lit_1_0)
      [] source = "HISTORICAL"    -> DMul(weight, Lit_0_6)
      [] source = "IOT_SENSOR"    -> DMul(weight, Lit_0_3)
      [] OTHER                    -> weight

\* switch (r.freshness)
freshnessWeight(weight, freshness) ==
    CASE freshness = "fresh" -> DMul(weight, Lit_1_0)
      [] freshness = "aging" -> DMul(weight, Lit_0_7)
      [] freshness = "stale" -> DMul(weight, Lit_0_4)
      [] OTHER               -> weight

\* switch (r.confidence)
confidenceWeight(weight, confidence) ==
    CASE confidence = "high"         -> DMul(weight, Lit_1_0)
      [] confidence = "medium"       -> DMul(weight, Lit_0_8)
      [] confidence = "low"          -> DMul(weight, Lit_0_5)
      [] confidence = "uncalibrated" -> DMul(weight, Lit_0_3)
      [] OTHER                       -> weight

\* a weight that leaves the confidence factor out
weightWithoutConfidence(r) ==
    freshnessWeight(sourceWeight(Lit_1, r.source), r.freshness)

\* the weight the map callback gives to the reading r, from let weight = 1
weightOf(r) ==
    confidenceWeight(freshnessWeight(sourceWeight(Lit_1, r.source), r.freshness),
                     r.confidence)

RECURSIVE weightedReadingsOf(_)
\* validReadings.map(r => { ...; return { reading: r, weight } })
weightedReadingsOf(valid) ==
    IF Len(valid) = 0 THEN <<>>
    ELSE <<[reading |-> valid[1], weight |-> weightOf(valid[1])]>>
         \o weightedReadingsOf(Tail(valid))

\* the number of readings in place of their total weight
totalWeightAsCount(wrs) == DInt(Len(wrs))

RECURSIVE totalWeightFrom(_, _)
totalWeightFrom(wrs, sum) ==
    IF Len(wrs) = 0 THEN sum
    ELSE totalWeightFrom(Tail(wrs), DAdd(sum, wrs[1].weight))

\* weightedReadings.reduce((sum, wr) => sum + wr.weight, 0)
totalWeight(wrs) == totalWeightFrom(wrs, DZero)

RECURSIVE weightedSumFrom(_, _)
weightedSumFrom(wrs, sum) ==
    IF Len(wrs) = 0 THEN sum
    ELSE weightedSumFrom(Tail(wrs),
                         DAdd(sum, DMul(DInt(wrs[1].reading.aqi), wrs[1].weight)))

\* weightedReadings.reduce((sum, wr) => sum + aqi * wr.weight, 0)
weightedSum(wrs) == weightedSumFrom(wrs, DZero)

\* Math.round(weightedSum / totalWeight)
derivedValue(wrs) == MathRound(DDiv(weightedSum(wrs), totalWeight(wrs)))

\* a best case of weight 1 for each reading
maxPossibleWeightOfOne(n) == DInt(n)

\* validReadings.length * 1.2 * 1.0 * 1.0
maxPossibleWeight(n) == DMul(DMul(DMul(DInt(n), Lit_1_2), Lit_1_0), Lit_1_0)

MathMin2(a, b) == IF a <= b THEN a ELSE b

\* Math.min(100, Math.round((totalWeight / maxPossibleWeight) * 100))
confidenceOf(wrs) ==
    MathMin2(100, MathRound(DMul(DDiv(totalWeight(wrs), maxPossibleWeight(Len(wrs))),
                                 Lit_100)))

RECURSIVE sourceListDistinct(_)
\* a source list that names each source once
sourceListDistinct(valid) ==
    IF Len(valid) = 0 THEN <<>>
    ELSE LET rest == sourceListDistinct(Tail(valid))
         IN  IF \E i \in 1..Len(rest) : rest[i] = valid[1].source THEN rest
             ELSE <<valid[1].source>> \o rest

RECURSIVE sourceListOf(_)
\* validReadings.map(r => r.source)
sourceListOf(valid) ==
    IF Len(valid) = 0 THEN <<>>
    ELSE <<valid[1].source>> \o sourceListOf(Tail(valid))

RECURSIVE weightExplanations(_)
\* `${wr.reading.source}: ${wr.weight.toFixed(2)}` for each weighted reading:
\* the source and the weight in hundredths
weightExplanations(wrs) ==
    IF Len(wrs) = 0 THEN <<>>
    ELSE <<[source |-> wrs[1].reading.source, weight |-> DScaled(wrs[1].weight, 100)]>>
         \o weightExplanations(Tail(wrs))

Methodology(text, count, weights) ==
    [text |-> text, count |-> count, weights |-> weights]

\* a result for no usable reading whose value is 0 instead of null
NoValidDataZero ==
    [value |-> 0, confidence |-> 0, sources |-> <<>>,
     methodology |-> Methodology("No valid data available.", 0, <<>>)]

\* the result for no usable reading
NoValidData ==
    [value |-> Null, confidence |-> 0, sources |-> <<>>,
     methodology |-> Methodology("No valid data available.", 0, <<>>)]

\* a derived AQI over every reading that has an aqi, whatever its freshness
calculateDerivedAQIOfAnyFreshness(rs) ==
    LET valid == validReadingsByAqi(rs)
        wrs   == weightedReadingsOf(valid)
    IN  IF Len(valid) = 0 THEN NoValidData
        ELSE [value |-> derivedValue(wrs),
              confidence |-> confidenceOf(wrs),
              sources |-> sourceListOf(valid),
              methodology |-> Methodology(
                  "Weighted average using ${validReadings.length} source(s). Weights: [${weightExplanations}]. Higher weights given to government data and fresh readings.",
                  Len(valid), weightExplanations(wrs))]

calculateDerivedAQI(rs) ==
    LET valid == validReadings(rs)
        wrs   == weightedReadingsOf(valid)
    IN  IF Len(valid) = 0 THEN NoValidData
        ELSE [value |-> derivedValue(wrs),
              confidence |-> confidenceOf(wrs),
              sources |-> sourceListOf(valid),
              methodology |-> Methodology(
                  "Weighted average using ${validReadings.length} source(s). Weights: [${weightExplanations}]. Higher weights given to government data and fresh readings.",
                  Len(valid), weightExplanations(wrs))]

(***************************************************************************)
(* calculateFreshness.  A timestamp is null, the empty string, a text that *)
(* is no date, or an ISO date of January 2025 such as                      *)
(* '2025-01-01T09:00:00Z'; the clock counts the milliseconds since         *)
(* 2025-01-01T00:00:00Z.                                                   *)
(***************************************************************************)
NoTimestamp == [kind |-> "null"]

EmptyTimestamp == [kind |-> "empty"]

UnparsableTimestamp == [kind |-> "text"]

IsoTimestamp(day, hour, minute, second, milli) ==
    [kind |-> "iso", day |-> day, hour |-> hour, minute |-> minute,
     second |-> second, milli |-> milli]

\* what getTime() gives for a text that is no date
NaN == -2

\* new Date(timestamp).getTime()
DateGetTime(timestamp) ==
    IF timestamp.kind = "iso"
    THEN ((((timestamp.day - 1) * 24 + timestamp.hour) * 60 + timestamp.minute) * 60
              + timestamp.second) * 1000 + timestamp.milli
    ELSE NaN

\* 1000 * 60 * 60
MsPerHour == 1000 * 60 * 60

\* a classifier for which an age of exactly one hour is still fresh
calculateFreshnessUpToOne(timestamp, now) ==
    IF timestamp.kind \in {"null", "empty"} THEN "unavailable"
    ELSE LET dataTime == DateGetTime(timestamp)
         IN  IF dataTime = NaN THEN "stale"
             ELSE IF now - dataTime < 0 THEN "fresh"
             ELSE CHOOSE status \in
                      { IF ~DLess(Lit_1, hoursDiff) THEN "fresh"
                        ELSE IF DLess(hoursDiff, DInt(6)) THEN "aging"
                        ELSE "stale" :
                            hoursDiff \in { DDiv(DInt(now - dataTime), DInt(MsPerHour)) } } :
                      TRUE

\* !timestamp holds for null and for the empty string.  The difference of
\* the two times is an exact integer; a negative one gives a negative
\* hoursDiff, which is below 1; NaN is below nothing.  hoursDiff is computed
\* once, as the value of the one element of a set.
calculateFreshness(timestamp, now) ==
    IF timestamp.kind \in {"null", "empty"} THEN "unavailable"
    ELSE LET dataTime == DateGetTime(timestamp)
         IN  IF dataTime = NaN THEN "stale"
             ELSE IF now - dataTime < 0 THEN "fresh"
             ELSE CHOOSE status \in
                      { IF DLess(hoursDiff, Lit_1) THEN "fresh"
                        ELSE IF DLess(hoursDiff, DInt(6)) THEN "aging"
                        ELSE "stale" :
                            hoursDiff \in { DDiv(DInt(now - dataTime), DInt(MsPerHour)) } } :
                      TRUE

(***************************************************************************)
(* normalizeAQI                                                            *)
(***************************************************************************)
\* 0.95 = 0x1E666666666666 * 2^-53
Lit_0_95 == [m |-> <<9830, 6553, 9830, 1945>>, e |-> -53]

\* a normalisation that scales the value of every source
normalizeAQIOfAnySource(value, sourceType) == MathRound(DMul(DInt(value), Lit_0_95))

normalizeAQI(value, sourceType) ==
    CASE sourceType = "INTERNATIONAL" -> MathRound(DMul(DInt(value), Lit_0_95))
      [] sourceType = "GOVERNMENT"    -> value
      [] sourceType = "HISTORICAL"    -> value
      [] sourceType = "IOT_SENSOR"    -> value
      [] OTHER                        -> value

(***************************************************************************)
(* The cities and the two caches.                                          *)
(***************************************************************************)
City(id, name) == [id |-> id, name |-> name]

INDIAN_CITIES ==
    << City("delhi", "Delhi"), City("mumbai", "Mumbai"),
       City("bangalore", "Bengaluru"), City("kolkata", "Kolkata"),
       City("jaipur", "Jaipur"), City("lucknow", "Lucknow"), City("patna", "Patna"),
       City("kanpur", "Kanpur"), City("ghaziabad", "Ghaziabad"),
       City("faridabad", "Faridabad") >>

HistoricalRow(aqi, pm25, pm10, hour, minute) ==
    [aqi |-> aqi, pm25 |-> pm25, pm10 |-> pm10,
     timestamp |-> IsoTimestamp(1, hour, minute, 0, 0)]

HISTORICAL_DATA ==
    [id \in { INDIAN_CITIES[i].id : i \in 1..Len(INDIAN_CITIES) } |->
        CASE id = "delhi"     -> HistoricalRow(285, 142, 198, 8, 0)
          [] id = "mumbai"    -> HistoricalRow(125, 58, 89, 7, 30)
          [] id = "bangalore" -> HistoricalRow(98, 42, 67, 9, 0)
          [] id = "kolkata"   -> HistoricalRow(168, 82, 124, 8, 15)
          [] id = "jaipur"    -> HistoricalRow(195, 95, 145, 7, 45)
          [] id = "lucknow"   -> HistoricalRow(242, 118, 178, 8, 30)
          [] id = "patna"     -> HistoricalRow(278, 136, 195, 9, 15)
          [] id = "kanpur"    -> HistoricalRow(312, 158, 228, 7, 0)
          [] id = "ghaziabad" -> HistoricalRow(298, 148, 212, 8, 45)
          [] id = "faridabad" -> HistoricalRow(275, 134, 192, 9, 30)]

GovernmentRow(aqi, pm25, pm10, no2) ==
    [aqi |-> aqi, pm25 |-> pm25, pm10 |-> pm10, no2 |-> no2,
     timestamp |-> IsoTimestamp(1, 9, 0, 0, 0)]

GOVERNMENT_DATA ==
    [id \in { INDIAN_CITIES[i].id : i \in 1..Len(INDIAN_CITIES) } |->
        CASE id = "delhi"     -> GovernmentRow(278, 138, 192, 45)
          [] id = "mumbai"    -> GovernmentRow(118, 52, 82, 28)
          [] id = "bangalore" -> GovernmentRow(92, 38, 62, 22)
          [] id = "kolkata"   -> GovernmentRow(162, 78, 118, 38)
          [] id = "jaipur"    -> GovernmentRow(188, 92, 138, 35)
          [] id = "lucknow"   -> GovernmentRow(235, 112, 172, 42)
          [] id = "patna"     -> GovernmentRow(268, 132, 188, 48)
          [] id = "kanpur"    -> GovernmentRow(305, 152, 218, 52)
          [] id = "ghaziabad" -> GovernmentRow(292, 142, 205, 48)
          [] id = "faridabad" -> GovernmentRow(268, 128, 185, 44)]

(***************************************************************************)
(* The readings the adapters build.  The units are written in ASCII.       *)
(***************************************************************************)
AQIReading(source, aqi, pollutants, timestamp, freshness, confidence, notes) ==
    [source |-> source, aqi |-> aqi, pollutants |-> pollutants,
     timestamp |-> timestamp, freshness |-> freshness, confidence |-> confidence,
     notes |-> notes]

\* a template text and what is put into it
Notes(text, inserted) == [text |-> text, inserted |-> inserted]

Pollutant(name, value, unit) == [name |-> name, value |-> value, unit |-> unit]

(***************************************************************************)
(* calculateAQIFromPM25.  The value of a measurement is a number that is   *)
(* not negative (a double), a negative number, undefined or null.          *)
(***************************************************************************)
NumberValue(d) == [kind |-> "number", d |-> d]

NegativeValue == [kind |-> "negative"]

UndefinedValue == [kind |-> "undefined"]

NullValue == [kind |-> "null"]

Breakpoint(cLow, cHigh, iLow, iHigh) ==
    [cLow |-> cLow, cHigh |-> cHigh, iLow |-> iLow, iHigh |-> iHigh]

\* 12, 12.1, 35.4, 35.5, 55.4, 55.5, 150.4, 150.5, 250.4, 250.5, 350.4,
\* 350.5 and 500.4 as doubles
breakpoints ==
    << Breakpoint(DZero, [m |-> <<0, 0, 0, 1536>>, e |-> -49], 0, 50),
       Breakpoint([m |-> <<13107, 3276, 13107, 1548>>, e |-> -49],
                  [m |-> <<13107, 3276, 13107, 1132>>, e |-> -47], 51, 100),
       Breakpoint([m |-> <<0, 0, 0, 1136>>, e |-> -47],
                  [m |-> <<13107, 3276, 13107, 1772>>, e |-> -47], 101, 150),
       Breakpoint([m |-> <<0, 0, 0, 1776>>, e |-> -47],
                  [m |-> <<3277, 13107, 3276, 1203>>, e |-> -45], 151, 200),
       Breakpoint([m |-> <<0, 0, 0, 1204>>, e |-> -45],
                  [m |-> <<3277, 13107, 3276, 2003>>, e |-> -45], 201, 300),
       Breakpoint([m |-> <<0, 0, 0, 2004>>, e |-> -45],
                  [m |-> <<9830, 6553, 9830, 1401>>, e |-> -44], 301, 400),
       Breakpoint([m |-> <<0, 0, 0, 1402>>, e |-> -44],
                  [m |-> <<9830, 6553, 9830, 2001>>, e |-> -44], 401, 500) >>

\* Math.round(((bp.iHigh - bp.iLow) / (bp.cHigh - bp.cLow)) * (pm25 - bp.cLow) + bp.iLow)
breakpointIndex(bp, d) ==
    MathRound(DAdd(DMul(DDiv(DInt(bp.iHigh - bp.iLow), DSub(bp.cHigh, bp.cLow)),
                        DSub(d, bp.cLow)),
                   DInt(bp.iLow)))

RECURSIVE indexFrom(_, _)
\* for (const bp of breakpoints) from the row i on; 500 after the last row
indexFrom(i, d) ==
    IF i > Len(breakpoints) THEN 500
    ELSE IF ~DLess(d, breakpoints[i].cLow) /\ ~DLess(breakpoints[i].cHigh, d)
    THEN breakpointIndex(breakpoints[i], d)
    ELSE indexFrom(i + 1, d)

\* A negative number and undefined (NaN in every comparison) are in no row;
\* null counts as 0 in the comparisons and in the arithmetic.
calculateAQIFromPM25(pm25) ==
    IF pm25.kind \in {"negative", "undefined"} THEN 500
    ELSE indexFrom(1, IF pm25.kind = "null" THEN DZero ELSE pm25.d)

(***************************************************************************)
(* fetchGovernmentData and fetchHistoricalData                             *)
(***************************************************************************)
\* an adapter that writes the freshness down instead of deriving it
fetchGovernmentDataAlwaysFresh(city, now) ==
    IF city.id \notin DOMAIN GOVERNMENT_DATA
    THEN AQIReading("GOVERNMENT", Null, <<>>, NoTimestamp, "unavailable", "low",
                    Notes("No CPCB data available for ${city.name}.", city.name))
    ELSE LET data == GOVERNMENT_DATA[city.id]
         IN  AQIReading("GOVERNMENT", data.aqi,
                        << Pollutant("PM2.5", data.pm25, "ug/m3"),
                           Pollutant("PM10", data.pm10, "ug/m3"),
                           Pollutant("NO2", data.no2, "ppb") >>,
                        data.timestamp, "fresh", "high",
                        Notes("Data from CPCB monitoring network. Considered authoritative for regulatory purposes.", ""))

fetchGovernmentData(city, now) ==
    IF city.id \notin DOMAIN GOVERNMENT_DATA
    THEN AQIReading("GOVERNMENT", Null, <<>>, NoTimestamp, "unavailable", "low",
                    Notes("No CPCB data available for ${city.name}.", city.name))
    ELSE LET data == GOVERNMENT_DATA[city.id]
         IN  AQIReading("GOVERNMENT", data.aqi,
                        << Pollutant("PM2.5", data.pm25, "ug/m3"),
                           Pollutant("PM10", data.pm10, "ug/m3"),
                           Pollutant("NO2", data.no2, "ppb") >>,
                        data.timestamp, calculateFreshness(data.timestamp, now), "high",
                        Notes("Data from CPCB monitoring network. Considered authoritative for regulatory purposes.", ""))

\* an adapter that gives its data the level of the government data
fetchHistoricalDataTrusted(city) ==
    IF city.id \notin DOMAIN HISTORICAL_DATA
    THEN AQIReading("HISTORICAL", Null, <<>>, NoTimestamp, "unavailable", "low",
                    Notes("No historical data available for ${city.name}.", city.name))
    ELSE LET data == HISTORICAL_DATA[city.id]
         IN  AQIReading("HISTORICAL", data.aqi,
                        << Pollutant("PM2.5", data.pm25, "ug/m3"),
                           Pollutant("PM10", data.pm10, "ug/m3") >>,
                        data.timestamp, "stale", "high",
                        Notes("Historical dataset (Kaggle-sourced). Useful for trend analysis but may not reflect current conditions.", ""))

fetchHistoricalData(city) ==
    IF city.id \notin DOMAIN HISTORICAL_DATA
    THEN AQIReading("HISTORICAL", Null, <<>>, NoTimestamp, "unavailable", "low",
                    Notes("No historical data available for ${city.name}.", city.name))
    ELSE LET data == HISTORICAL_DATA[city.id]
         IN  AQIReading("HISTORICAL", data.aqi,
                        << Pollutant("PM2.5", data.pm25, "ug/m3"),
                           Pollutant("PM10", data.pm10, "ug/m3") >>,
                        data.timestamp, "stale", "medium",
                        Notes("Historical dataset (Kaggle-sourced). Useful for trend analysis but may not reflect current conditions.", ""))

(***************************************************************************)
(* fetchOpenAQData.  What supabase.functions.invoke does during the call   *)
(* is the outcome: it rejects, or it resolves to { data, error }.  The     *)
(* parts of the data are given by their shape: null, undefined, a text, an *)
(* object or an array.                                                     *)
(***************************************************************************)
Rejected(isError, message) == [kind |-> "rejected", isError |-> isError, message |-> message]

Resolved(error, data) == [kind |-> "resolved", error |-> error, data |-> data]

NoError == [present |-> FALSE]

ErrorOf(message) == [present |-> TRUE, message |-> message]

NullShape == [shape |-> "null"]

UndefinedShape == [shape |-> "undefined"]

TextShape == [shape |-> "text"]

\* an object without the fields asked for
EmptyObject == [shape |-> "empty object"]

ArrayOf(items) == [shape |-> "array", items |-> items]

DataOf(results) == [shape |-> "object", results |-> results]

ResultOf(measurements) == [shape |-> "object", measurements |-> measurements]

Measurement(parameter, value, unit, lastUpdated) ==
    [hasParameter |-> TRUE, parameter |-> parameter, value |-> value, unit |-> unit,
     lastUpdated |-> lastUpdated]

\* a measurement whose parameter is undefined
MeasurementOfNothing(value, unit, lastUpdated) ==
    [hasParameter |-> FALSE, parameter |-> "", value |-> value, unit |-> unit,
     lastUpdated |-> lastUpdated]

UndefinedTimestamp == [kind |-> "undefined"]

\* String.prototype.toUpperCase on the parameter names of OpenAQ and on the
\* city types
ToUpperCase(parameter) ==
    CASE parameter = "pm25" -> "PM25"
      [] parameter = "pm10" -> "PM10"
      [] parameter = "no2"  -> "NO2"
      [] parameter = "o3"   -> "O3"
      [] parameter = "metro"      -> "METRO"
      [] parameter = "tier2"      -> "TIER2"
      [] parameter = "industrial" -> "INDUSTRIAL"
      [] OTHER              -> parameter

RECURSIVE pollutantsOf(_)
\* measurements.map(m => ({ name: m.parameter.toUpperCase(), value, unit }))
pollutantsOf(measurements) ==
    IF Len(measurements) = 0 THEN <<>>
    ELSE << Pollutant(ToUpperCase(measurements[1].parameter), measurements[1].value,
                      measurements[1].unit) >> \o pollutantsOf(Tail(measurements))

\* the reading of the catch block
openAQFailure(message) ==
    AQIReading("INTERNATIONAL", Null, <<>>, NoTimestamp, "unavailable", "low",
               Notes("Failed to fetch OpenAQ data: ${error instanceof Error ? error.message : 'Unknown error'}",
                     message))

\* measurements[0]?.lastUpdated || null
firstLastUpdated(measurements) ==
    IF Len(measurements) = 0 THEN NoTimestamp
    ELSE IF measurements[1].lastUpdated.kind \in {"undefined", "null", "empty"}
    THEN NoTimestamp
    ELSE measurements[1].lastUpdated

\* measurements.find(m => m.parameter === 'pm25'): the places of the PM2.5
\* measurements
pm25Places(measurements) ==
    { i \in 1..Len(measurements) : measurements[i].parameter = "pm25" }

\* the aqi of the reading: null without a PM2.5 measurement
openAQIndex(measurements) ==
    IF pm25Places(measurements) = {} THEN Null
    ELSE LET i == CHOOSE i \in pm25Places(measurements) :
                      \A j \in pm25Places(measurements) : i <= j
         IN  CHOOSE aqi \in { normalizeAQI(index, "INTERNATIONAL") :
                                  index \in { calculateAQIFromPM25(measurements[i].value) } } :
                 TRUE

\* the reading made of the measurements of the first result
openAQReading(measurements, now) ==
    CHOOSE reading \in
        { AQIReading("INTERNATIONAL", aqi, pollutantsOf(measurements), timestamp,
                     calculateFreshness(timestamp, now),
                     IF aqi # Null THEN "high" ELSE "low",
                     Notes("Data from OpenAQ network. AQI calculated from PM2.5 concentration.", "")) :
              aqi \in { openAQIndex(measurements) },
              timestamp \in { firstLastUpdated(measurements) } } : TRUE

\* Reading a property of null or undefined, and calling map on what is no
\* array, throw a TypeError inside the try block.  The first element of an
\* object that is no array is undefined.
fetchOpenAQData(city, outcome, now) ==
    IF outcome.kind = "rejected"
    THEN openAQFailure(IF outcome.isError THEN outcome.message ELSE "Unknown error")
    ELSE IF outcome.error.present
    THEN openAQFailure(IF outcome.error.message # "" THEN outcome.error.message
                       ELSE "Edge function error")
    ELSE IF outcome.data.shape \in {"null", "undefined"}
    THEN openAQFailure("TypeError: Cannot read properties of null (reading 'results')")
    ELSE IF \/ outcome.data.results.shape \in {"undefined", "null"}
            \/ (outcome.data.results.shape = "array" /\ Len(outcome.data.results.items) = 0)
    THEN AQIReading("INTERNATIONAL", Null, <<>>, NoTimestamp, "unavailable", "low",
                    Notes("No OpenAQ data available for ${city.name}. City may not have monitoring stations in OpenAQ network.",
                          city.name))
    ELSE IF outcome.data.results.shape = "empty object"
    THEN openAQFailure("TypeError: Cannot read properties of undefined (reading 'measurements')")
    ELSE LET result == outcome.data.results.items[1]
         IN  IF result.shape \in {"null", "undefined"}
             THEN openAQFailure("TypeError: Cannot read properties of null (reading 'measurements')")
             ELSE IF result.measurements.shape \in {"text", "empty object"}
             THEN openAQFailure("TypeError: measurements.map is not a function")
             ELSE IF /\ result.measurements.shape = "array"
                     /\ \E i \in 1..Len(result.measurements.items) :
                            ~result.measurements.items[i].hasParameter
             THEN openAQFailure("TypeError: Cannot read properties of undefined (reading 'toUpperCase')")
             ELSE openAQReading(IF result.measurements.shape \in {"undefined", "null"}
                                THEN <<>> ELSE result.measurements.items, now)

(***************************************************************************)
(* The IoT panel.  A text is the sequence of its characters.               *)
(***************************************************************************)
CityType == {"metro", "tier2", "industrial"}

DigitChars == <<"0", "1", "2", "3", "4", "5", "6", "7", "8", "9">>

IsDigit(c) == \E d \in 1..Len(DigitChars) : DigitChars[d] = c

DigitValue(c) == (CHOOSE d \in 1..Len(DigitChars) : DigitChars[d] = c) - 1

NotANumber == [kind |-> "nan"]

IntegerOf(n) == [kind |-> "number", n |-> n]

RECURSIVE digitsFrom(_, _, _)
\* the value of the digits of the text from the place i on, up to the first
\* character that is no digit
digitsFrom(text, i, acc) ==
    IF i > Len(text) \/ ~IsDigit(text[i]) THEN acc
    ELSE digitsFrom(text, i + 1, acc * 10 + DigitValue(text[i]))

\* parseInt(text, 10): a sign, then the longest run of digits; NaN when there
\* is no digit at that place.  The -0 of a text such as '-0.5' is the number
\* 0: it is neither below 0 nor above 500.
parseInt(text) ==
    LET negative == Len(text) > 0 /\ text[1] = "-"
        first    == IF Len(text) > 0 /\ text[1] \in {"-", "+"} THEN 2 ELSE 1
    IN  IF first > Len(text) \/ ~IsDigit(text[first]) THEN NotANumber
        ELSE IntegerOf(IF negative THEN 0 - digitsFrom(text, first, 0)
                       ELSE digitsFrom(text, first, 0))

RECURSIVE NumberToString(_)
\* Number.prototype.toString of an integer that is not negative
NumberToString(n) ==
    IF n < 10 THEN << DigitChars[n + 1] >>
    ELSE NumberToString(n \div 10) \o << DigitChars[(n % 10) + 1] >>

\* new Date(now).toISOString()
DateToISOString(now) ==
    IsoTimestamp((now \div (24 * MsPerHour)) + 1, (now \div MsPerHour) % 24,
                 (now \div 60000) % 60, (now \div 1000) % 60, now % 1000)

\* a submit that lets every number pass
handleSubmitOfAnyNumber(manualAQI, cityType, now) ==
    LET aqiValue == parseInt(manualAQI)
    IN  IF aqiValue.kind = "nan" THEN <<>>
        ELSE << AQIReading("IOT_SENSOR", aqiValue.n, <<>>, DateToISOString(now), "fresh",
                           "uncalibrated",
                           Notes("Manual IoT sensor input. City type: ${cityType.toUpperCase()}. Value is uncalibrated and should be treated with caution.",
                                 ToUpperCase(cityType))) >>

\* handleSubmit: the readings it hands to onIoTReading, none or one
handleSubmit(manualAQI, cityType, now) ==
    LET aqiValue == parseInt(manualAQI)
    IN  IF aqiValue.kind = "nan" \/ aqiValue.n < 0 \/ aqiValue.n > 500 THEN <<>>
        ELSE << AQIReading("IOT_SENSOR", aqiValue.n, <<>>, DateToISOString(now), "fresh",
                           "uncalibrated",
                           Notes("Manual IoT sensor input. City type: ${cityType.toUpperCase()}. Value is uncalibrated and should be treated with caution.",
                                 ToUpperCase(cityType))) >>

\* the switch of handleSimulate: baseAQI = base + Math.random() * range
baseOf(cityType) ==
    CASE cityType = "metro"      -> [base |-> 150, range |-> 100]
      [] cityType = "tier2"      -> [base |-> 100, range |-> 80]
      [] cityType = "industrial" -> [base |-> 200, range |-> 150]

\* baseAQI of handleSimulate for a value of Math.random()
baseAQI(cityType, random) ==
    DAdd(DInt(baseOf(cityType).base), DMul(random, DInt(baseOf(cityType).range)))

\* handleSimulate: the reading it hands to onIoTReading
handleSimulate(cityType, random, now) ==
    AQIReading("IOT_SENSOR", MathRound(baseAQI(cityType, random)), <<>>,
               DateToISOString(now), "fresh", "uncalibrated",
               Notes("Simulated IoT sensor reading. City type: ${cityType.toUpperCase()}. Value is for demonstration purposes.",
                     ToUpperCase(cityType)))

(***************************************************************************)
(* The reconciliation of one reading collection: the caller hands the      *)
(* collection to analyzeAgreement and then to calculateDerivedAQI.         *)
(***************************************************************************)
\* the longest collection handed over
MaxReadings == 3

\* The readings the collections are made of.  Seven are usable, of every
\* source, of the AQI values 278, 252 and 285 and of values at distance 20
\* (305, 285) and 50 (302, 252; 278, 228); one has no aqi, one has an aqi but
\* no timestamp.
ReadingPool ==
    { Reading("GOVERNMENT", 278, "fresh", "high"),
      Reading("INTERNATIONAL", 252, "aging", "high"),
      Reading("HISTORICAL", 285, "stale", "medium"),
      Reading("IOT_SENSOR", 302, "fresh", "uncalibrated"),
      Reading("GOVERNMENT", 260, "fresh", "low"),
      Reading("IOT_SENSOR", 228, "fresh", "high"),
      Reading("IOT_SENSOR", 305, "stale", "uncalibrated"),
      Reading("INTERNATIONAL", Null, "fresh", "low"),
      Reading("GOVERNMENT", 190, "unavailable", "high") }

\* every collection of up to MaxReadings different readings, in every order
Inputs ==
    { rs \in UNION { [1..n -> ReadingPool] : n \in 0..MaxReadings } :
          \A i, j \in DOMAIN rs : rs[i] = rs[j] => i = j }

NotAnalyzed ==
    [level |-> "pending", spread |-> Null, explanation |-> Explanation("", "", Null)]

NotDerived ==
    [value |-> Null, confidence |-> 0, sources |-> <<>>,
     methodology |-> Methodology("", 0, <<>>)]

VARIABLES readings, pc, agreement, weightedReadings, derived, call, returned,
          selectedCity, isLoading, governmentData, internationalData, historicalData,
          iotData, fetching, enabled, cityType, manualAQI, isSubmitted

\* no call of a single function is under way
NoCall == [fn |-> "none"]

NotReturned == [done |-> FALSE]

Returned(value) == [done |-> TRUE, value |-> value]

callVars == <<call, returned>>

NoCalls == call = NoCall /\ returned = NotReturned

\* the state of the page and of the IoT panel
dashboardVars ==
    <<selectedCity, isLoading, governmentData, internationalData, historicalData, iotData,
      fetching, enabled, cityType, manualAQI, isSubmitted>>

\* a state variable of a reading that holds null
NullReading == [isNull |-> TRUE]

\* the values the page and the panel are created with
Created ==
    /\ selectedCity = INDIAN_CITIES[1]
    /\ isLoading = FALSE
    /\ governmentData = NullReading
    /\ internationalData = NullReading
    /\ historicalData = NullReading
    /\ iotData = NullReading
    /\ fetching = <<>>
    /\ enabled = FALSE
    /\ cityType = "metro"
    /\ manualAQI = <<>>
    /\ isSubmitted = FALSE

vars ==
    <<readings, pc, agreement, weightedReadings, derived, call, returned, selectedCity,
      isLoading, governmentData, internationalData, historicalData, iotData, fetching,
      enabled, cityType, manualAQI, isSubmitted>>

Init ==
    /\ readings \in Inputs
    /\ pc = "start"
    /\ agreement = NotAnalyzed
    /\ weightedReadings = <<>>
    /\ derived = NotDerived
    /\ NoCalls
    /\ Created

AnalyzeAgreement ==
    /\ pc = "start"
    /\ agreement' = analyzeAgreement(readings)
    /\ pc' = "analyzed"
    /\ UNCHANGED <<readings, weightedReadings, derived>>
    /\ UNCHANGED callVars
    /\ UNCHANGED dashboardVars

CalculateDerivedAQI ==
    /\ pc = "analyzed"
    /\ weightedReadings' = weightedReadingsOf(validReadings(readings))
    /\ derived' = calculateDerivedAQI(readings)
    /\ pc' = "derived"
    /\ UNCHANGED <<readings, agreement>>
    /\ UNCHANGED callVars
    /\ UNCHANGED dashboardVars

Next == AnalyzeAgreement \/ CalculateDerivedAQI

Spec == Init /\ [][Next]_vars

(***************************************************************************)
(* The same reconciliation on collections made to be compared with each    *)
(* other: collections of equal deviation and different spread.             *)
(***************************************************************************)
MaxCompared == 3

\* With x = 100: {x, x+2, x+20} and {x, x+10, x+22} have the same deviation
\* (variance 728/9) and the spreads 20 and 22; {x, x+4, x+19} and
\* {x, x+9, x+20} have the variance 602/9 and the spreads 19 and 20;
\* {x, x+5, x+50} and {x, x+25, x+55} have the variance 4550/9 and the
\* spreads 50 and 55.
ComparedAqi == {100, 102, 104, 105, 109, 110, 119, 120, 122, 125, 150, 155}

ComparedPool == { Reading("GOVERNMENT", v, "fresh", "high") : v \in ComparedAqi }

\* the collections of 2..MaxCompared readings of the pool, by rising aqi
ComparedInputs ==
    { rs \in UNION { [1..n -> ComparedPool] : n \in 2..MaxCompared } :
          \A i, j \in DOMAIN rs : i < j => rs[i].aqi < rs[j].aqi }

InitCompared ==
    /\ readings \in ComparedInputs
    /\ pc = "start"
    /\ agreement = NotAnalyzed
    /\ weightedReadings = <<>>
    /\ derived = NotDerived
    /\ NoCalls
    /\ Created

SpecCompared == InitCompared /\ [][Next]_vars

(***************************************************************************)
(* The same reconciliation on collections of up to MaxTrusted readings in  *)
(* which the reading of the greatest weight occurs many times.             *)
(***************************************************************************)
MaxTrusted == 6

TrustedPool ==
    { Reading("GOVERNMENT", 278, "fresh", "high"),
      Reading("IOT_SENSOR", 302, "fresh", "uncalibrated") }

TrustedInputs == UNION { [1..n -> TrustedPool] : n \in 0..MaxTrusted }

InitTrusted ==
    /\ readings \in TrustedInputs
    /\ pc = "start"
    /\ agreement = NotAnalyzed
    /\ weightedReadings = <<>>
    /\ derived = NotDerived
    /\ NoCalls
    /\ Created

SpecTrusted == InitTrusted /\ [][Next]_vars

(***************************************************************************)
(* Single calls of the exported functions: a call with its arguments, then *)
(* its return.                                                             *)
(***************************************************************************)
reconciliationVars == <<readings, pc, agreement, weightedReadings, derived>>

NoReconciliation ==
    /\ readings = <<>>
    /\ pc = "idle"
    /\ agreement = NotAnalyzed
    /\ weightedReadings = <<>>
    /\ derived = NotDerived

\* the upper end of the AQI scale
MaxAQI == 500

Timestamps ==
    { NoTimestamp, EmptyTimestamp, UnparsableTimestamp,
      IsoTimestamp(1, 9, 0, 0, 0), IsoTimestamp(1, 8, 0, 0, 0),
      IsoTimestamp(1, 7, 30, 0, 0), IsoTimestamp(1, 8, 59, 59, 999),
      IsoTimestamp(2, 0, 0, 0, 0) }

\* the times of the clock: around 1 hour and 6 hours after 09:00 of January
\* 1st, a millisecond before 09:00, and noon of January 20th
Clock ==
    { DateGetTime(IsoTimestamp(1, 9, 0, 0, 0)) + d :
          d \in { -1, 0, 1, MsPerHour - 1, MsPerHour, MsPerHour + 1,
                  6 * MsPerHour - 1, 6 * MsPerHour, 6 * MsPerHour + 1 } }
        \cup { DateGetTime(IsoTimestamp(20, 12, 0, 0, 0)) }

FreshnessCalls ==
    { [fn |-> "calculateFreshness", timestamp |-> t, now |-> n] :
          t \in Timestamps, n \in Clock }

NormalizeCalls ==
    { [fn |-> "normalizeAQI", value |-> v, sourceType |-> s] :
          v \in 0..MaxAQI, s \in DataSource }

\* the cities of the database and a city that is in neither cache
AdapterCities ==
    { INDIAN_CITIES[i] : i \in 1..Len(INDIAN_CITIES) } \cup { City("pune", "Pune") }

\* PM2.5 concentrations: 0, 9, 12.05, 35.45, 138, 500.4 and 500.5
Pm25Numbers ==
    { DZero, [m |-> <<0, 0, 0, 1152>>, e |-> -49],
      [m |-> <<6554, 9830, 6553, 1542>>, e |-> -49],
      [m |-> <<6554, 9830, 6553, 1134>>, e |-> -47],
      [m |-> <<0, 0, 0, 1104>>, e |-> -45],
      [m |-> <<9830, 6553, 9830, 2001>>, e |-> -44],
      [m |-> <<0, 0, 0, 2002>>, e |-> -44] }

Pm25Values ==
    { NumberValue(d) : d \in Pm25Numbers }
        \cup { NegativeValue, UndefinedValue, NullValue }

LastUpdatedValues ==
    { IsoTimestamp(1, 8, 59, 59, 999), UnparsableTimestamp, EmptyTimestamp,
      UndefinedTimestamp }

\* a PM10 measurement of 192
Pm10Measurement(lastUpdated) ==
    Measurement("pm10", NumberValue([m |-> <<0, 0, 0, 1536>>, e |-> -45]), "ug/m3",
                lastUpdated)

MeasurementLists ==
    { <<>>, << MeasurementOfNothing(NumberValue(DZero), "ug/m3", UndefinedTimestamp) >> }
        \cup { << Measurement("pm25", v, "ug/m3", t) >> :
                   v \in Pm25Values, t \in LastUpdatedValues }
        \cup { << Pm10Measurement(t) >> : t \in LastUpdatedValues }
        \cup { << Pm10Measurement(IsoTimestamp(1, 8, 59, 59, 999)),
                  Measurement("pm25", v, "ug/m3", UndefinedTimestamp) >> :
                   v \in Pm25Values }

\* what the proxy call can do
Outcomes ==
    { Rejected(TRUE, "Failed to send a request to the Edge Function"),
      Rejected(FALSE, ""),
      Resolved(ErrorOf("Edge Function returned a non-2xx status code"), NullShape),
      Resolved(ErrorOf(""), NullShape),
      Resolved(NoError, NullShape),
      Resolved(NoError, DataOf(UndefinedShape)),
      Resolved(NoError, DataOf(EmptyObject)),
      Resolved(NoError, DataOf(ArrayOf(<<>>))),
      Resolved(NoError, DataOf(ArrayOf(<< NullShape >>))),
      Resolved(NoError, DataOf(ArrayOf(<< ResultOf(UndefinedShape) >>))),
      Resolved(NoError, DataOf(ArrayOf(<< ResultOf(TextShape) >>))) }
        \cup { Resolved(NoError, DataOf(ArrayOf(<< ResultOf(ArrayOf(ms)) >>))) :
                   ms \in MeasurementLists }

FetchGovernmentCalls ==
    { [fn |-> "fetchGovernmentData", city |-> c, now |-> n] :
          c \in AdapterCities, n \in Clock }

FetchHistoricalCalls ==
    { [fn |-> "fetchHistoricalData", city |-> c] : c \in AdapterCities }

FetchOpenAQCalls ==
    { [fn |-> "fetchOpenAQData", city |-> c, outcome |-> o, now |-> n] :
          c \in { INDIAN_CITIES[1], INDIAN_CITIES[10], City("pune", "Pune") },
          o \in Outcomes, n \in Clock }

\* 09:30 of January 1st
DashboardClock == { DateGetTime(IsoTimestamp(1, 9, 30, 0, 0)) }

\* the least and the greatest value of Math.random(): 0 and 1 - 2^-53
Randoms == { DZero, [m |-> <<16383, 16383, 16383, 2047>>, e |-> -53] }

\* what is typed into the field: nothing, 0, 500, 501, -5, 1e3, -0.5
Entries ==
    { <<>>, <<"0">>, <<"5", "0", "0">>, <<"5", "0", "1">>, <<"-", "5">>,
      <<"1", "e", "3">>, <<"-", "0", ".", "5">> }

HandleSubmitCalls ==
    { [fn |-> "handleSubmit", manualAQI |-> e, cityType |-> t, now |-> n] :
          e \in Entries, t \in CityType, n \in DashboardClock }

HandleSimulateCalls ==
    { [fn |-> "handleSimulate", cityType |-> t, random |-> r, now |-> n] :
          t \in CityType, r \in Randoms, n \in DashboardClock }

\* PM2.5 concentrations with their hundredths: 0, 6, 12, 12.05, 12.1, 35.4,
\* 35.45, 35.5, 499.7, 500.4 and 500.5
Concentrations ==
    { [d |-> DZero, hundredths |-> 0],
      [d |-> [m |-> <<0, 0, 0, 1536>>, e |-> -50], hundredths |-> 600],
      [d |-> [m |-> <<0, 0, 0, 1536>>, e |-> -49], hundredths |-> 1200],
      [d |-> [m |-> <<6554, 9830, 6553, 1542>>, e |-> -49], hundredths |-> 1205],
      [d |-> [m |-> <<13107, 3276, 13107, 1548>>, e |-> -49], hundredths |-> 1210],
      [d |-> [m |-> <<13107, 3276, 13107, 1132>>, e |-> -47], hundredths |-> 3540],
      [d |-> [m |-> <<6554, 9830, 6553, 1134>>, e |-> -47], hundredths |-> 3545],
      [d |-> [m |-> <<0, 0, 0, 1136>>, e |-> -47], hundredths |-> 3550],
      [d |-> [m |-> <<13107, 3276, 13107, 1998>>, e |-> -44], hundredths |-> 49970],
      [d |-> [m |-> <<9830, 6553, 9830, 2001>>, e |-> -44], hundredths |-> 50040],
      [d |-> [m |-> <<0, 0, 0, 2002>>, e |-> -44], hundredths |-> 50050] }

CalculateAQIFromPM25Calls ==
    { [fn |-> "calculateAQIFromPM25", pm25 |-> NumberValue(c.d)] : c \in Concentrations }

Calls ==
    FreshnessCalls \cup NormalizeCalls \cup FetchGovernmentCalls
        \cup FetchHistoricalCalls \cup FetchOpenAQCalls \cup HandleSubmitCalls
        \cup HandleSimulateCalls \cup CalculateAQIFromPM25Calls

InitCalls ==
    /\ call \in Calls
    /\ returned = NotReturned
    /\ NoReconciliation
    /\ Created

CalculateFreshness ==
    /\ call.fn = "calculateFreshness"
    /\ ~returned.done
    /\ returned' = Returned(calculateFreshness(call.timestamp, call.now))
    /\ UNCHANGED call
    /\ UNCHANGED reconciliationVars
    /\ UNCHANGED dashboardVars

NormalizeAQI ==
    /\ call.fn = "normalizeAQI"
    /\ ~returned.done
    /\ returned' = Returned(normalizeAQI(call.value, call.sourceType))
    /\ UNCHANGED call
    /\ UNCHANGED reconciliationVars
    /\ UNCHANGED dashboardVars

FetchGovernmentData ==
    /\ call.fn = "fetchGovernmentData"
    /\ ~returned.done
    /\ returned' = Returned(fetchGovernmentData(call.city, call.now))
    /\ UNCHANGED call
    /\ UNCHANGED reconciliationVars
    /\ UNCHANGED dashboardVars

FetchOpenAQData ==
    /\ call.fn = "fetchOpenAQData"
    /\ ~returned.done
    /\ returned' = Returned(fetchOpenAQData(call.city, call.outcome, call.now))
    /\ UNCHANGED call
    /\ UNCHANGED reconciliationVars
    /\ UNCHANGED dashboardVars

FetchHistoricalData ==
    /\ call.fn = "fetchHistoricalData"
    /\ ~returned.done
    /\ returned' = Returned(fetchHistoricalData(call.city))
    /\ UNCHANGED call
    /\ UNCHANGED reconciliationVars
    /\ UNCHANGED dashboardVars

\* handleSubmit alone: what it hands to onIoTReading
SubmitReading ==
    /\ call.fn = "handleSubmit"
    /\ ~returned.done
    /\ returned' = Returned(handleSubmit(call.manualAQI, call.cityType, call.now))
    /\ UNCHANGED call
    /\ UNCHANGED reconciliationVars
    /\ UNCHANGED dashboardVars

\* handleSimulate alone: what it hands to onIoTReading
SimulateReading ==
    /\ call.fn = "handleSimulate"
    /\ ~returned.done
    /\ returned' = Returned(<< handleSimulate(call.cityType, call.random, call.now) >>)
    /\ UNCHANGED call
    /\ UNCHANGED reconciliationVars
    /\ UNCHANGED dashboardVars

CalculateAQIFromPM25 ==
    /\ call.fn = "calculateAQIFromPM25"
    /\ ~returned.done
    /\ returned' = Returned(calculateAQIFromPM25(call.pm25))
    /\ UNCHANGED call
    /\ UNCHANGED reconciliationVars
    /\ UNCHANGED dashboardVars

NextCalls ==
    \/ CalculateFreshness
    \/ NormalizeAQI
    \/ FetchGovernmentData
    \/ FetchOpenAQData
    \/ FetchHistoricalData
    \/ SubmitReading
    \/ SimulateReading
    \/ CalculateAQIFromPM25

SpecCalls == InitCalls /\ [][NextCalls]_vars

(***************************************************************************)
(* The page and its IoT panel.  fetching holds the calls of fetchData that  *)
(* wait for the proxy, each with its city and the time it began at.        *)
(***************************************************************************)
\* the greatest number of calls of fetchData under way at a time
MaxFetching == 1

\* the cities chosen on the page
DashboardCities == { INDIAN_CITIES[1], INDIAN_CITIES[2] }

\* the proxy call fails, or answers with a PM2.5 value of 0 or of 500.5
DashboardOutcomes ==
    { Rejected(TRUE, "Failed to send a request to the Edge Function") }
        \cup { Resolved(NoError, DataOf(ArrayOf(<< ResultOf(ArrayOf(
                    << Measurement("pm25", NumberValue(d), "ug/m3",
                                   IsoTimestamp(1, 8, 59, 59, 999)) >>)) >>))) :
                    d \in { DZero, [m |-> <<0, 0, 0, 2002>>, e |-> -44] } }

\* the readings of the adapters and of the simulation for every input of
\* the page, each computed once
governmentReadings ==
    [city \in DashboardCities, now \in DashboardClock |-> fetchGovernmentData(city, now)]

internationalReadings ==
    [city \in DashboardCities, outcome \in DashboardOutcomes, now \in DashboardClock |->
        fetchOpenAQData(city, outcome, now)]

historicalReadings == [city \in DashboardCities |-> fetchHistoricalData(city)]

simulatedReadings ==
    [type \in CityType, random \in Randoms, now \in DashboardClock |->
        handleSimulate(type, random, now)]

\* [governmentData, internationalData, historicalData, iotData].filter(r => r !== null)
allReadings ==
    SelectSeq(<<governmentData, internationalData, historicalData, iotData>>,
              LAMBDA r : r # NullReading)

\* const agreement = analyzeAgreement(allReadings), evaluated in every
\* rendering of the page
pageAgreement == analyzeAgreement(allReadings)

\* const derivedAQI = calculateDerivedAQI(allReadings), evaluated in every
\* rendering of the page
derivedAQI == calculateDerivedAQI(allReadings)

\* the page after its first rendering: the effect has called fetchData
InitDashboard ==
    /\ selectedCity = INDIAN_CITIES[1]
    /\ isLoading = TRUE
    /\ governmentData = NullReading
    /\ internationalData = NullReading
    /\ historicalData = NullReading
    /\ iotData = NullReading
    /\ \E now \in DashboardClock : fetching = << [city |-> INDIAN_CITIES[1], now |-> now] >>
    /\ enabled = FALSE
    /\ cityType = "metro"
    /\ manualAQI = <<>>
    /\ isSubmitted = FALSE
    /\ NoCalls
    /\ NoReconciliation

\* onCityChange and the effect that follows it: fetchData up to its await
SelectCity ==
    /\ Len(fetching) < MaxFetching
    /\ \E city \in DashboardCities, now \in DashboardClock :
           /\ city # selectedCity
           /\ selectedCity' = city
           /\ fetching' = Append(fetching, [city |-> city, now |-> now])
    /\ isLoading' = TRUE
    /\ iotData' = NullReading
    /\ UNCHANGED <<governmentData, internationalData, historicalData, enabled, cityType,
                   manualAQI, isSubmitted>>
    /\ UNCHANGED callVars
    /\ UNCHANGED reconciliationVars

\* fetchData after its await: the proxy call of one of the calls under way
\* is over
FetchDataDone ==
    /\ \E i \in 1..Len(fetching), outcome \in DashboardOutcomes, now \in DashboardClock :
           /\ now >= fetching[i].now
           /\ governmentData' = governmentReadings[fetching[i].city, fetching[i].now]
           /\ internationalData' = internationalReadings[fetching[i].city, outcome, now]
           /\ historicalData' = historicalReadings[fetching[i].city]
           /\ fetching' = SubSeq(fetching, 1, i - 1) \o SubSeq(fetching, i + 1, Len(fetching))
    /\ isLoading' = FALSE
    /\ UNCHANGED <<selectedCity, iotData, enabled, cityType, manualAQI, isSubmitted>>
    /\ UNCHANGED callVars
    /\ UNCHANGED reconciliationVars

\* a switch that leaves the reading of the sensor with the page
HandleToggleKeepingReading ==
    /\ enabled' = ~enabled
    /\ IF enabled
       THEN /\ isSubmitted' = FALSE
            /\ manualAQI' = <<>>
       ELSE UNCHANGED <<isSubmitted, manualAQI>>
    /\ UNCHANGED <<selectedCity, isLoading, governmentData, internationalData,
                   historicalData, iotData, fetching, cityType>>
    /\ UNCHANGED callVars
    /\ UNCHANGED reconciliationVars

HandleToggle ==
    /\ enabled' = ~enabled
    /\ IF enabled
       THEN /\ iotData' = NullReading
            /\ isSubmitted' = FALSE
            /\ manualAQI' = <<>>
       ELSE UNCHANGED <<iotData, isSubmitted, manualAQI>>
    /\ UNCHANGED <<selectedCity, isLoading, governmentData, internationalData,
                   historicalData, fetching, cityType>>
    /\ UNCHANGED callVars
    /\ UNCHANGED reconciliationVars

\* onValueChange of the selector of the location type
SetCityType ==
    /\ enabled
    /\ \E v \in CityType : v # cityType /\ cityType' = v
    /\ UNCHANGED <<selectedCity, isLoading, governmentData, internationalData,
                   historicalData, iotData, fetching, enabled, manualAQI, isSubmitted>>
    /\ UNCHANGED callVars
    /\ UNCHANGED reconciliationVars

\* onChange of the field
OnChange ==
    /\ enabled
    /\ \E value \in Entries : value # manualAQI /\ manualAQI' = value
    /\ isSubmitted' = FALSE
    /\ UNCHANGED <<selectedCity, isLoading, governmentData, internationalData,
                   historicalData, iotData, fetching, enabled, cityType>>
    /\ UNCHANGED callVars
    /\ UNCHANGED reconciliationVars

HandleSubmit ==
    /\ enabled
    /\ \E now \in DashboardClock :
           LET emitted == handleSubmit(manualAQI, cityType, now)
           IN  IF emitted = <<>>
               THEN UNCHANGED <<iotData, isSubmitted>>
               ELSE /\ iotData' = emitted[1]
                    /\ isSubmitted' = TRUE
    /\ UNCHANGED <<selectedCity, isLoading, governmentData, internationalData,
                   historicalData, fetching, enabled, cityType, manualAQI>>
    /\ UNCHANGED callVars
    /\ UNCHANGED reconciliationVars

HandleSimulate ==
    /\ enabled
    /\ \E random \in Randoms, now \in DashboardClock :
           LET iotReading == simulatedReadings[cityType, random, now]
           IN  /\ iotData' = iotReading
               /\ manualAQI' = NumberToString(iotReading.aqi)
    /\ isSubmitted' = TRUE
    /\ UNCHANGED <<selectedCity, isLoading, governmentData, internationalData,
                   historicalData, fetching, enabled, cityType>>
    /\ UNCHANGED callVars
    /\ UNCHANGED reconciliationVars

NextDashboard ==
    \/ SelectCity
    \/ FetchDataDone
    \/ HandleToggle
    \/ SetCityType
    \/ OnChange
    \/ HandleSubmit
    \/ HandleSimulate

SpecDashboard == InitDashboard /\ [][NextDashboard]_vars

(***************************************************************************)
(* fetchData with its three adapter calls.  A call of fetchData under way  *)
(* holds, for each adapter, the reading its promise resolved with, or null *)
(* while the promise is pending.  The timers of fetchHistoricalData (100   *)
(* ms) and of fetchGovernmentData (200 ms) fire in the order of their      *)
(* deadlines; the proxy call of fetchOpenAQData ends at any time.  The     *)
(* step that resolves the last of the three promises runs what follows the *)
(* await of Promise.all.  The panel of the IoT sensor is left as created.  *)
(***************************************************************************)
\* the greatest number of calls of fetchData under way at a time
MaxInFlight == 2

\* await Promise.all([...]): fetchData resumes when the three promises have
\* resolved
PromiseAny(frame) ==
    \/ frame.govt # NullReading
    \/ frame.intl # NullReading
    \/ frame.hist # NullReading

PromiseAll(frame) ==
    /\ frame.govt # NullReading
    /\ frame.intl # NullReading
    /\ frame.hist # NullReading

\* the page after its first rendering: the effect has called fetchData,
\* which has started the three adapters
InitFetching ==
    /\ selectedCity = INDIAN_CITIES[1]
    /\ isLoading = TRUE
    /\ governmentData = NullReading
    /\ internationalData = NullReading
    /\ historicalData = NullReading
    /\ iotData = NullReading
    /\ \E now \in DashboardClock :
           fetching = << [city |-> INDIAN_CITIES[1], now |-> now, govt |-> NullReading,
                          intl |-> NullReading, hist |-> NullReading] >>
    /\ enabled = FALSE
    /\ cityType = "metro"
    /\ manualAQI = <<>>
    /\ isSubmitted = FALSE
    /\ NoCalls
    /\ NoReconciliation

\* onCityChange and the effect that follows it: fetchData up to its await
OnCityChange ==
    /\ Len(fetching) < MaxInFlight
    /\ \E city \in DashboardCities, now \in DashboardClock :
           /\ city # selectedCity
           /\ selectedCity' = city
           /\ fetching' = Append(fetching, [city |-> city, now |-> now, govt |-> NullReading,
                                            intl |-> NullReading, hist |-> NullReading])
    /\ isLoading' = TRUE
    /\ iotData' = NullReading
    /\ UNCHANGED <<governmentData, internationalData, historicalData, enabled, cityType,
                   manualAQI, isSubmitted>>
    /\ UNCHANGED callVars
    /\ UNCHANGED reconciliationVars

\* a promise of the call i of fetchData has resolved, which leaves the call
\* as frame: fetchData waits on, or runs from its await to its end
PromiseResolved(i, frame) ==
    /\ IF PromiseAll(frame)
       THEN /\ governmentData' = frame.govt
            /\ internationalData' = frame.intl
            /\ historicalData' = frame.hist
            /\ isLoading' = FALSE
            /\ fetching' = SubSeq(fetching, 1, i - 1) \o SubSeq(fetching, i + 1, Len(fetching))
       ELSE /\ fetching' = [fetching EXCEPT ![i] = frame]
            /\ UNCHANGED <<governmentData, internationalData, historicalData, isLoading>>
    /\ UNCHANGED <<selectedCity, iotData, enabled, cityType, manualAQI, isSubmitted>>
    /\ UNCHANGED callVars
    /\ UNCHANGED reconciliationVars

\* the timer of fetchHistoricalData fires: the timers of the earlier calls
\* have fired
HistoricalResolved ==
    \E i \in 1..Len(fetching) :
        /\ fetching[i].hist = NullReading
        /\ \A j \in 1..(i - 1) : fetching[j].hist # NullReading
        /\ PromiseResolved(i, [fetching[i] EXCEPT !.hist = historicalReadings[fetching[i].city]])

\* the timer of fetchGovernmentData fires, after the shorter timer of the
\* same call and the timers of the earlier calls
GovernmentResolved ==
    \E i \in 1..Len(fetching), now \in DashboardClock :
        /\ fetching[i].govt = NullReading
        /\ fetching[i].hist # NullReading
        /\ \A j \in 1..(i - 1) : fetching[j].govt # NullReading
        /\ now >= fetching[i].now
        /\ PromiseResolved(i, [fetching[i] EXCEPT
                                   !.govt = governmentReadings[fetching[i].city, now]])

\* the proxy call of fetchOpenAQData is over
OpenAQResolved ==
    \E i \in 1..Len(fetching), outcome \in DashboardOutcomes, now \in DashboardClock :
        /\ fetching[i].intl = NullReading
        /\ now >= fetching[i].now
        /\ PromiseResolved(i, [fetching[i] EXCEPT
                                   !.intl = internationalReadings[fetching[i].city, outcome, now]])

NextFetching ==
    \/ OnCityChange
    \/ HistoricalResolved
    \/ GovernmentResolved
    \/ OpenAQResolved

SpecFetching == InitFetching /\ [][NextFetching]_vars

(***************************************************************************)
(* What the specification states, in exact arithmetic: the weight table in *)
(* tenths, the weight of a reading in thousandths, rounding half up.       *)
(***************************************************************************)
StatedUsable(r) == r.aqi # Null /\ r.freshness # "unavailable"

StatedUsableOf(rs) == SelectSeq(rs, StatedUsable)

StatedReliability(source) ==
    CASE source = "GOVERNMENT"    -> 12
      [] source = "INTERNATIONAL" -> 10
      [] source = "HISTORICAL"    -> 6
      [] source = "IOT_SENSOR"    -> 3

StatedFreshness(freshness) ==
    CASE freshness = "fresh" -> 10
      [] freshness = "aging" -> 7
      [] freshness = "stale" -> 4

StatedConfidence(confidence) ==
    CASE confidence = "high"         -> 10
      [] confidence = "medium"       -> 8
      [] confidence = "low"          -> 5
      [] confidence = "uncalibrated" -> 3

\* reliability * freshness * confidence, in thousandths
StatedWeight(r) ==
    StatedReliability(r.source) * StatedFreshness(r.freshness)
        * StatedConfidence(r.confidence)

RECURSIVE StatedWeightSum(_)
StatedWeightSum(rs) ==
    IF Len(rs) = 0 THEN 0 ELSE StatedWeight(rs[1]) + StatedWeightSum(Tail(rs))

RECURSIVE StatedWeightedAqiSum(_)
StatedWeightedAqiSum(rs) ==
    IF Len(rs) = 0 THEN 0
    ELSE rs[1].aqi * StatedWeight(rs[1]) + StatedWeightedAqiSum(Tail(rs))

\* num / den rounded to the nearest integer, halves up, for num >= 0 < den
RoundHalfUp(num, den) == (2 * num + den) \div (2 * den)

\* the collection rs in the order p, a permutation of its indices
Permuted(rs, p) == [i \in 1..Len(rs) |-> rs[p[i]]]

Reordered(rs) == { Permuted(rs, p) : p \in Permutations(1..Len(rs)) }

IsIoTFreshUncalibrated(r) ==
    r.source = "IOT_SENSOR" /\ r.freshness = "fresh" /\ r.confidence = "uncalibrated"

(***************************************************************************)
(* C1: whenever some reading is usable, the value calculateDerivedAQI      *)
(* returns is the weighted mean of the usable AQI values, sum(aqi_i *      *)
(* weight_i) / sum(weight_i), rounded half up, and the total weight is     *)
(* positive.                                                               *)
(***************************************************************************)
C1_ValueIsRoundedWeightedMean ==
    (pc = "derived" /\ Len(StatedUsableOf(readings)) > 0) =>
        LET usable == StatedUsableOf(readings)
        IN  /\ StatedWeightSum(usable) > 0
            /\ ~DIsZero(totalWeight(weightedReadings))
            /\ derived.value =
                   RoundHalfUp(StatedWeightedAqiSum(usable), StatedWeightSum(usable))

\* the exact mean is 501/2 and the value returned is 250
C1_TieRoundedDown ==
    /\ pc = "derived"
    /\ readings = << Reading("INTERNATIONAL", 252, "aging", "high"),
                     Reading("IOT_SENSOR", 228, "fresh", "high"),
                     Reading("GOVERNMENT", 260, "fresh", "low") >>
    /\ 2 * StatedWeightedAqiSum(readings) = 501 * StatedWeightSum(readings)
    /\ derived.value = 250

(***************************************************************************)
(* C2: the weight calculateDerivedAQI gives a usable reading is the        *)
(* product reliability(source) * freshness factor * confidence factor of   *)
(* the table (1.2, 1.0, 0.6, 0.3; 1.0, 0.7, 0.4; 1.0, 0.8, 0.5, 0.3) and   *)
(* nothing more: it equals the exact product to the thousandth, for the    *)
(* readings weighed and (stated once, for the empty collection) for every  *)
(* source, freshness and confidence, where it is also the double product   *)
(* of the three factors.  A fresh uncalibrated IOT_SENSOR reading weighs   *)
(* 0.09, less than any usable GOVERNMENT reading.                          *)
(***************************************************************************)
C2_WeightIsStrictProduct ==
    pc = "derived" =>
        LET usable == StatedUsableOf(readings)
        IN  /\ Len(weightedReadings) = Len(usable)
            /\ readings = <<>> =>
                   \A s \in DataSource, f \in FreshnessStatus \ {"unavailable"},
                      c \in ConfidenceLevel :
                       LET r == Reading(s, 0, f, c)
                       IN  /\ DScaled(weightOf(r), 1000) = StatedWeight(r)
                           /\ weightOf(r) = DMul(DMul(sourceWeight(Lit_1, s),
                                                       freshnessWeight(Lit_1, f)),
                                                  confidenceWeight(Lit_1, c))
            /\ \A i \in 1..Len(weightedReadings) :
                   LET r == weightedReadings[i].reading
                       w == weightedReadings[i].weight
                   IN  /\ r = usable[i]
                       /\ DScaled(w, 1000) = StatedWeight(r)
                       /\ IsIoTFreshUncalibrated(r) =>
                              /\ DScaled(w, 1000) = 90
                              /\ DScaled(w, 100) = 9
                              /\ \A f \in FreshnessStatus \ {"unavailable"},
                                    c \in ConfidenceLevel :
                                     DLess(w, weightOf(Reading("GOVERNMENT", 0, f, c)))

C2_IoTBesideGovernment ==
    /\ pc = "derived"
    /\ \E i, j \in 1..Len(weightedReadings) :
           /\ IsIoTFreshUncalibrated(weightedReadings[i].reading)
           /\ weightedReadings[j].reading.source = "GOVERNMENT"
           /\ weightedReadings[j].reading.confidence = "low"
           /\ DLess(weightedReadings[i].weight, weightedReadings[j].weight)

(***************************************************************************)
(* C3: whenever some reading is usable, the value lies between the least   *)
(* and the greatest usable AQI value; with one usable reading it is that   *)
(* reading's AQI.                                                          *)
(***************************************************************************)
C3_ValueWithinHull ==
    (pc = "derived" /\ Len(StatedUsableOf(readings)) > 0) =>
        LET usable == StatedUsableOf(readings)
        IN  /\ \E i \in 1..Len(usable) : usable[i].aqi <= derived.value
            /\ \E i \in 1..Len(usable) : derived.value <= usable[i].aqi
            /\ Len(usable) = 1 => derived.value = usable[1].aqi

C3_ValueStrictlyInside ==
    /\ pc = "derived"
    /\ Len(StatedUsableOf(readings)) = 3
    /\ \E i \in 1..Len(readings) : StatedUsable(readings[i]) /\ readings[i].aqi < derived.value
    /\ \E i \in 1..Len(readings) : StatedUsable(readings[i]) /\ derived.value < readings[i].aqi

(***************************************************************************)
(* C4: with N >= 1 usable readings the confidence is                       *)
(* min(100, round(100 * sum(weight_i) / (N * 1.2))), rounded half up, an   *)
(* integer from 0 to 100; with no usable reading it is 0.                  *)
(***************************************************************************)
C4_ConfidenceIsNormalisedWeight ==
    pc = "derived" =>
        LET usable == StatedUsableOf(readings)
            N      == Len(usable)
        IN  /\ derived.confidence \in 0..100
            /\ N = 0 => derived.confidence = 0
            /\ N >= 1 =>
                   derived.confidence =
                       MathMin2(100, RoundHalfUp(100 * StatedWeightSum(usable), N * 1200))

\* 100 * 0.99 / 3.6 is 55/2 and the confidence returned is 27
C4_TieRoundedDown ==
    /\ pc = "derived"
    /\ readings = << Reading("GOVERNMENT", 260, "fresh", "low"),
                     Reading("IOT_SENSOR", 228, "fresh", "high"),
                     Reading("IOT_SENSOR", 302, "fresh", "uncalibrated") >>
    /\ 2 * 100 * StatedWeightSum(readings) = 55 * 3 * 1200
    /\ derived.confidence = 27

(***************************************************************************)
(* C5: with no usable reading (an empty collection, or only readings       *)
(* without aqi or with freshness 'unavailable') calculateDerivedAQI        *)
(* returns value null, confidence 0, no sources and the 'No valid data'    *)
(* methodology, and it does return: the call is never refused.             *)
(***************************************************************************)
C5_NoUsableReading ==
    Len(StatedUsableOf(readings)) = 0 =>
        /\ pc = "analyzed" => ENABLED CalculateDerivedAQI
        /\ pc = "derived" =>
               /\ derived.value = Null
               /\ derived.confidence = 0
               /\ derived.sources = <<>>
               /\ derived.methodology.text = "No valid data available."
               /\ derived.methodology.weights = <<>>

C5_OnlyUnusableReadings ==
    /\ pc = "derived"
    /\ Len(readings) = 2
    /\ \E i \in 1..2 : readings[i].aqi = Null
    /\ \E i \in 1..2 : readings[i].aqi # Null /\ readings[i].freshness = "unavailable"
    /\ derived.value = Null

(***************************************************************************)
(* C6: with two or more usable readings analyzeAgreement returns spread =  *)
(* max - min of the usable AQI values and the level 'high' when spread <=  *)
(* 20 and the population standard deviation <= 10, else 'partial' when     *)
(* spread <= 50 and the deviation <= 25, else 'outlier'; a spread of       *)
(* exactly 20 is 'high' and of exactly 50 'partial'; the readings 278, 252 *)
(* and 285 have spread 33 and level 'partial'.  The deviation is compared  *)
(* as n * sum(x^2) - sum(x)^2 <= limit^2 * n^2.                            *)
(***************************************************************************)
RECURSIVE StatedSum(_, _)
StatedSum(rs, power) ==
    IF Len(rs) = 0 THEN 0
    ELSE (IF power = 2 THEN rs[1].aqi * rs[1].aqi ELSE rs[1].aqi)
         + StatedSum(Tail(rs), power)

StatedStdDevAtMost(rs, limit) ==
    Len(rs) * StatedSum(rs, 2) - StatedSum(rs, 1) * StatedSum(rs, 1)
        <= limit * limit * Len(rs) * Len(rs)

StatedSpread(rs) ==
    CHOOSE d \in 0..500 :
        \E i, j \in 1..Len(rs) :
            /\ d = rs[i].aqi - rs[j].aqi
            /\ \A k \in 1..Len(rs) : rs[j].aqi <= rs[k].aqi /\ rs[k].aqi <= rs[i].aqi

StatedLevel(rs) ==
    IF StatedSpread(rs) <= 20 /\ StatedStdDevAtMost(rs, 10) THEN "high"
    ELSE IF StatedSpread(rs) <= 50 /\ StatedStdDevAtMost(rs, 25) THEN "partial"
    ELSE "outlier"

C6_SpreadAndLevel ==
    (pc # "start" /\ Len(StatedUsableOf(readings)) >= 2) =>
        LET usable == StatedUsableOf(readings)
        IN  /\ agreement.spread = StatedSpread(usable)
            /\ agreement.level = StatedLevel(usable)
            /\ agreement.spread = 20 => agreement.level = "high"
            /\ agreement.spread = 50 => agreement.level = "partial"
            /\ { usable[i].aqi : i \in 1..Len(usable) } = {278, 252, 285} =>
                   agreement.spread = 33 /\ agreement.level = "partial"

C6_ThreeReadingsPartial ==
    /\ pc = "analyzed"
    /\ Len(readings) = 3
    /\ { readings[i].aqi : i \in 1..3 } = {278, 252, 285}
    /\ agreement.spread = 33
    /\ agreement.level = "partial"

(***************************************************************************)
(* C7: with fewer than two usable readings analyzeAgreement returns level  *)
(* 'insufficient' and spread null, and it does return; with exactly one    *)
(* usable reading the explanation names that reading's source.             *)
(***************************************************************************)
C7_InsufficientBelowTwo ==
    Len(StatedUsableOf(readings)) < 2 =>
        /\ pc = "start" => ENABLED AnalyzeAgreement
        /\ pc # "start" =>
               /\ agreement.level = "insufficient"
               /\ agreement.spread = Null
               /\ Len(StatedUsableOf(readings)) = 1 =>
                      /\ agreement.explanation.source = StatedUsableOf(readings)[1].source
                      /\ agreement.explanation.text =
                             "Only ${validReadings[0].source} data available. Cannot cross-validate."

C7_SingleUsableAmongThree ==
    /\ pc = "analyzed"
    /\ Len(readings) = 3
    /\ ~StatedUsable(readings[1])
    /\ StatedUsable(readings[2])
    /\ ~StatedUsable(readings[3])
    /\ agreement.level = "insufficient"
    /\ agreement.explanation.source = readings[2].source

(***************************************************************************)
(* C8: both functions use a reading exactly when its aqi is not null and   *)
(* its freshness is not 'unavailable': the readings weighed and the        *)
(* sources listed are the usable ones, and both results are those of the   *)
(* collection with every unusable reading taken out, so that adding or     *)
(* removing unusable readings changes neither.                             *)
(***************************************************************************)
C8_UnusableReadingsIgnored ==
    LET usable == StatedUsableOf(readings)
    IN  /\ pc # "start" => agreement = analyzeAgreement(usable)
        /\ pc = "derived" =>
               /\ Len(weightedReadings) = Len(usable)
               /\ \A i \in 1..Len(usable) :
                      /\ weightedReadings[i].reading = usable[i]
                      /\ derived.sources[i] = usable[i].source
               /\ Len(derived.sources) = Len(usable)
               /\ usable # readings => derived = calculateDerivedAQI(usable)

C8_BothUnusableKindsBesideUsable ==
    /\ pc = "derived"
    /\ Len(readings) = 3
    /\ \E i \in 1..3 : readings[i].aqi = Null /\ readings[i].freshness # "unavailable"
    /\ \E i \in 1..3 : readings[i].aqi # Null /\ readings[i].freshness = "unavailable"
    /\ Len(derived.sources) = 1
    /\ derived.value # Null

(***************************************************************************)
(* C9: analyzeAgreement returns the same level, spread and explanation for *)
(* every order of the collection.                                          *)
(***************************************************************************)
C9_AgreementOrderIndependent ==
    pc # "start" =>
        \A rs \in Reordered(readings) :
            LET a == analyzeAgreement(rs)
            IN  /\ a.level = agreement.level
                /\ a.spread = agreement.spread
                /\ a.explanation = agreement.explanation

C9_ExtremesInside ==
    /\ pc = "analyzed"
    /\ Len(StatedUsableOf(readings)) = 3
    /\ readings[2].aqi > readings[1].aqi
    /\ readings[2].aqi > readings[3].aqi
    /\ agreement.spread > 50
    /\ agreement.level = "outlier"

(***************************************************************************)
(* C10: calculateDerivedAQI returns the same value and the same confidence *)
(* for every order of the collection.                                      *)
(***************************************************************************)
C10_DerivedOrderIndependent ==
    pc = "derived" =>
        \A rs \in Reordered(readings) :
            LET d == calculateDerivedAQI(rs)
            IN  /\ d.value = derived.value
                /\ d.confidence = derived.confidence

\* the same three readings give 250 in this order and 251 in another
C10_ValueDependsOnOrder ==
    /\ pc = "derived"
    /\ readings = << Reading("INTERNATIONAL", 252, "aging", "high"),
                     Reading("IOT_SENSOR", 228, "fresh", "high"),
                     Reading("GOVERNMENT", 260, "fresh", "low") >>
    /\ derived.value = 250
    /\ calculateDerivedAQI(<<readings[1], readings[3], readings[2]>>).value = 251

(***************************************************************************)
(* C11: the sources calculateDerivedAQI returns are the sources of the     *)
(* usable readings, one entry for each usable reading, in the order of the *)
(* input: unusable readings are skipped, a source that occurs twice is     *)
(* listed twice, and the length of the list is the number of usable        *)
(* readings.                                                               *)
(***************************************************************************)
C11_SourcesInInputOrder ==
    pc = "derived" =>
        LET usable == StatedUsableOf(readings)
        IN  /\ Len(derived.sources) = Len(usable)
            /\ \A i \in 1..Len(usable) : derived.sources[i] = usable[i].source
            /\ \A i, j \in 1..Len(readings) :
                   (i < j /\ StatedUsable(readings[i]) /\ StatedUsable(readings[j])) =>
                       \E k, l \in 1..Len(derived.sources) :
                           /\ k < l
                           /\ derived.sources[k] = readings[i].source
                           /\ derived.sources[l] = readings[j].source

\* an unusable reading between two usable readings of the same source
C11_DuplicateSourceAroundUnusable ==
    /\ pc = "derived"
    /\ Len(readings) = 3
    /\ StatedUsable(readings[1])
    /\ ~StatedUsable(readings[2])
    /\ StatedUsable(readings[3])
    /\ readings[1].source = readings[3].source
    /\ derived.sources = <<readings[1].source, readings[3].source>>

(***************************************************************************)
(* C12: the agreement level is monotonic in the spread.  Of two usable     *)
(* sets of at least 2 readings with the same standard deviation, the one   *)
(* with the smaller spread never has the level of more disagreement, in    *)
(* the order high < partial < outlier; so a greater spread at the same     *)
(* deviation never turns 'outlier' into 'high'.  Two sets have the same    *)
(* deviation when their variances n * sum(x^2) - sum(x)^2 over n^2 are     *)
(* equal.                                                                  *)
(***************************************************************************)
LevelRank(level) ==
    CASE level = "high" -> 0 [] level = "partial" -> 1 [] level = "outlier" -> 2

\* n^2 times the variance of the aqi values of rs
StatedVarianceTimesSquare(rs) ==
    Len(rs) * StatedSum(rs, 2) - StatedSum(rs, 1) * StatedSum(rs, 1)

StatedSameDeviation(rs, other) ==
    StatedVarianceTimesSquare(rs) * Len(other) * Len(other)
        = StatedVarianceTimesSquare(other) * Len(rs) * Len(rs)

C12_LevelMonotonicInSpread ==
    (pc # "start" /\ Len(StatedUsableOf(readings)) >= 2) =>
        \A other \in ComparedInputs :
            LET b == analyzeAgreement(other)
            IN  (/\ StatedSameDeviation(StatedUsableOf(readings), other)
                 /\ agreement.spread <= b.spread) =>
                    /\ LevelRank(agreement.level) <= LevelRank(b.level)
                    /\ ~(agreement.level = "outlier" /\ b.level = "high")

\* a set of level 'high' beside a set of the same deviation, a greater spread
\* and the level 'partial'
C12_SameDeviationGreaterSpread ==
    /\ pc = "analyzed"
    /\ agreement.level = "high"
    /\ agreement.spread = 20
    /\ \E other \in ComparedInputs :
           /\ StatedSameDeviation(readings, other)
           /\ analyzeAgreement(other).spread = 22
           /\ analyzeAgreement(other).level = "partial"

(***************************************************************************)
(* C13: the spread alone does not decide the agreement level: for some     *)
(* usable set the spread is at most 20 and the deviation above 10, so that *)
(* the level is not 'high', or the spread is at most 50 and the deviation  *)
(* above 25, so that the level is 'outlier'.                               *)
(***************************************************************************)
C13_DeviationDecidesForSomeSet ==
    \E rs \in ComparedInputs \cup { StatedUsableOf(readings) } :
        /\ Len(rs) >= 2
        /\ LET a == analyzeAgreement(rs)
           IN  \/ a.spread <= 20 /\ ~StatedStdDevAtMost(rs, 10) /\ a.level # "high"
               \/ a.spread <= 50 /\ ~StatedStdDevAtMost(rs, 25) /\ a.level = "outlier"

(***************************************************************************)
(* C13, as the code behaves: the deviation of a set is at most half its    *)
(* spread, so a spread of at most 20 comes with a deviation of at most 10  *)
(* and a spread of at most 50 with one of at most 25, in exact numbers and *)
(* in the doubles of the code alike.  The level of a usable set of at      *)
(* least 2 readings is 'high' for a spread of at most 20, 'partial' for a  *)
(* spread above 20 and at most 50, and 'outlier' above 50.                 *)
(***************************************************************************)
C13_SpreadAloneDecides ==
    (pc # "start" /\ Len(StatedUsableOf(readings)) >= 2) =>
        LET usable   == StatedUsableOf(readings)
            variance == varianceOf(aqiValuesOf(usable))
        IN  /\ agreement.spread <= 20 =>
                   /\ StatedStdDevAtMost(usable, 10)
                   /\ sqrtAtMost(variance, 10)
            /\ agreement.spread <= 50 =>
                   /\ StatedStdDevAtMost(usable, 25)
                   /\ sqrtAtMost(variance, 25)
            /\ agreement.level = "high" <=> agreement.spread <= 20
            /\ agreement.level = "partial" <=>
                   (agreement.spread > 20 /\ agreement.spread <= 50)
            /\ agreement.level = "outlier" <=> agreement.spread > 50

\* the deviation at its greatest for the spread: 10 for two readings 20 apart
C13_DeviationAtItsLimit ==
    /\ pc = "analyzed"
    /\ Len(readings) = 2
    /\ agreement.spread = 20
    /\ StatedVarianceTimesSquare(readings) = 10 * 10 * 2 * 2
    /\ varianceOf(aqiValuesOf(readings)) = DInt(100)
    /\ agreement.level = "high"

(***************************************************************************)
(* C14: for every usable set the ratio 100 * sum(weight) / (N * 1.2) is at *)
(* most 100, because no weight is above 1.2; the cap min(100, ...) never   *)
(* changes the result, which is the rounded ratio itself; and the          *)
(* confidence is 100 when every usable reading is GOVERNMENT, fresh and of *)
(* high confidence.  The stated weights are in thousandths.                *)
(***************************************************************************)
uncappedConfidence(wrs) ==
    MathRound(DMul(DDiv(totalWeight(wrs), maxPossibleWeight(Len(wrs))), Lit_100))

IsGovernmentFreshHigh(r) ==
    r.source = "GOVERNMENT" /\ r.freshness = "fresh" /\ r.confidence = "high"

StatedAgeMs(c) == c.now - DateGetTime(c.timestamp)

C16_NormalizedValue ==
    (call.fn = "normalizeAQI" /\ returned.done) =>
        /\ call.sourceType = "INTERNATIONAL" =>
               /\ returned.value = RoundHalfUp(95 * call.value, 100)
               /\ 100 * returned.value - 95 * call.value <= 50
               /\ 95 * call.value - 100 * returned.value <= 50
        /\ call.sourceType \in {"GOVERNMENT", "HISTORICAL", "IOT_SENSOR"} =>
               returned.value = call.value
        /\ returned.value \in 0..500
        /\ returned.value <= call.value

\* 0.95 * 10 = 9.5, half way between 9 and 10
C16_HalfWayValue ==
    /\ call.fn = "normalizeAQI"
    /\ returned.done
    /\ call.sourceType = "INTERNATIONAL"
    /\ call.value = 10
    /\ returned.value = 10

(***************************************************************************)
(* C17: each source adapter returns a well-formed reading for every call   *)
(* and lets no error through; on every failure (the proxy fails or         *)
(* reports an error, the result is empty, the response is malformed, the   *)
(* city is in no cache) the reading has aqi null, freshness 'unavailable'  *)
(* and notes that are not empty.  A response is malformed when a part the  *)
(* adapter reads is missing or of the wrong shape, a PM2.5 measurement     *)
(* without a number as its value included.                                 *)
(***************************************************************************)
IsAdapterCall(c) ==
    c.fn \in {"fetchGovernmentData", "fetchOpenAQData", "fetchHistoricalData"}

AdapterSource(c) ==
    CASE c.fn = "fetchGovernmentData" -> "GOVERNMENT"
      [] c.fn = "fetchOpenAQData"     -> "INTERNATIONAL"
      [] c.fn = "fetchHistoricalData" -> "HISTORICAL"

AdapterResult(c) ==
    CASE c.fn = "fetchGovernmentData" -> fetchGovernmentData(c.city, c.now)
      [] c.fn = "fetchOpenAQData"     -> fetchOpenAQData(c.city, c.outcome, c.now)
      [] c.fn = "fetchHistoricalData" -> fetchHistoricalData(c.city)

StatedWellFormed(r, source) ==
    /\ r.source = source
    /\ r.aqi = Null \/ r.aqi \in Nat
    /\ r.pollutants \in Seq({ r.pollutants[i] : i \in 1..Len(r.pollutants) })
    /\ r.timestamp.kind \in {"null", "iso", "text"}
    /\ r.freshness \in FreshnessStatus
    /\ r.confidence \in ConfidenceLevel
    /\ r.notes.text # ""

StatedCachedIds == { "delhi", "mumbai", "bangalore", "kolkata", "jaipur", "lucknow",
                     "patna", "kanpur", "ghaziabad", "faridabad" }

StatedMalformedMeasurements(ms) ==
    \/ ms.shape # "array"
    \/ /\ ms.shape = "array"
       /\ \E i \in 1..Len(ms.items) :
              \/ ~ms.items[i].hasParameter
              \/ /\ ms.items[i].parameter = "pm25"
                 /\ ms.items[i].value.kind \in {"undefined", "null"}

StatedMalformed(o) ==
    /\ o.kind = "resolved"
    /\ ~o.error.present
    /\ \/ o.data.shape # "object"
       \/ /\ o.data.shape = "object"
          /\ o.data.results.shape = "empty object"
       \/ /\ o.data.shape = "object"
          /\ o.data.results.shape = "array"
          /\ Len(o.data.results.items) > 0
          /\ \/ o.data.results.items[1].shape # "object"
             \/ /\ o.data.results.items[1].shape = "object"
                /\ StatedMalformedMeasurements(o.data.results.items[1].measurements)

StatedEmptyResult(o) ==
    /\ o.kind = "resolved"
    /\ ~o.error.present
    /\ o.data.shape = "object"
    /\ \/ o.data.results.shape = "undefined"
       \/ o.data.results.shape = "array" /\ Len(o.data.results.items) = 0

\* the measurements of the first result, when the response has them
StatedMeasurements(o) ==
    IF /\ o.kind = "resolved"
       /\ ~o.error.present
       /\ o.data.shape = "object"
       /\ o.data.results.shape = "array"
       /\ Len(o.data.results.items) > 0
       /\ o.data.results.items[1].shape = "object"
       /\ o.data.results.items[1].measurements.shape = "array"
    THEN o.data.results.items[1].measurements.items
    ELSE <<>>

StatedFailure(c) ==
    CASE c.fn = "fetchOpenAQData" ->
             \/ c.outcome.kind = "rejected"
             \/ c.outcome.kind = "resolved" /\ c.outcome.error.present
             \/ StatedEmptyResult(c.outcome)
             \/ StatedMalformed(c.outcome)
      [] OTHER -> c.city.id \notin StatedCachedIds

C17_AdaptersFailSoftly ==
    IsAdapterCall(call) =>
        /\ StatedWellFormed(AdapterResult(call), AdapterSource(call))
        /\ returned.done =>
               /\ StatedWellFormed(returned.value, AdapterSource(call))
               /\ StatedFailure(call) =>
                      /\ returned.value.aqi = Null
                      /\ returned.value.freshness = "unavailable"
                      /\ returned.value.notes.text # ""

\* a PM2.5 measurement whose value is undefined, and a reading of aqi 475
C17_ValueMissingAqiMade ==
    /\ call.fn = "fetchOpenAQData"
    /\ returned.done
    /\ StatedMeasurements(call.outcome) =
           << Measurement("pm25", UndefinedValue, "ug/m3", IsoTimestamp(1, 8, 59, 59, 999)) >>
    /\ returned.value.aqi = 475
    /\ returned.value.confidence = "high"
    /\ returned.value.freshness # "unavailable"

(***************************************************************************)
(* C20: every reading a source adapter returns has freshness 'unavailable' *)
(* when its aqi is null.                                                   *)
(***************************************************************************)
C20_NullAqiIsUnavailable ==
    (IsAdapterCall(call) /\ returned.done) =>
        (returned.value.aqi = Null => returned.value.freshness = "unavailable")

\* measurements with a lastUpdated time and no PM2.5 among them
C20_TimestampWithoutPm25 ==
    /\ call.fn = "fetchOpenAQData"
    /\ returned.done
    /\ StatedMeasurements(call.outcome) =
           << Pm10Measurement(IsoTimestamp(1, 8, 59, 59, 999)) >>
    /\ returned.value.aqi = Null
    /\ returned.value.timestamp = IsoTimestamp(1, 8, 59, 59, 999)
    /\ returned.value.freshness \in {"fresh", "aging", "stale"}

(***************************************************************************)
(* C18: every reading of the collection handed to analyzeAgreement and     *)
(* calculateDerivedAQI, whether an adapter made it or the IoT panel by a   *)
(* submit or by a simulation, has an aqi that is null or an integer from 0 *)
(* to 500.                                                                 *)
(***************************************************************************)
C18_AqiNullOrInScale ==
    \A i \in 1..Len(allReadings) :
        allReadings[i].aqi = Null \/ allReadings[i].aqi \in 0..MaxAQI

\* The collection holds the reading of a submit of the entry 500 beside
\* the readings of the three adapters, one of them without aqi.
C18_SubmittedTopOfScale ==
    /\ isSubmitted
    /\ manualAQI = <<"5", "0", "0">>
    /\ Len(allReadings) = 4
    /\ allReadings[4].source = "IOT_SENSOR"
    /\ allReadings[4].aqi = MaxAQI
    /\ allReadings[2].aqi = Null

(***************************************************************************)
(* What the statement calls the entered value: the number the text of the  *)
(* field writes down, with its fraction and its exponent, as              *)
(* mantissa * 10^scale; the field is of the type "number".                 *)
(***************************************************************************)
RECURSIVE StatedRunEnd(_, _)
\* the place after the run of digits that begins at the place i
StatedRunEnd(text, i) ==
    IF i > Len(text) \/ ~IsDigit(text[i]) THEN i ELSE StatedRunEnd(text, i + 1)

StatedNumber(text) ==
    LET first    == IF Len(text) > 0 /\ text[1] = "-" THEN 2 ELSE 1
        intEnd   == StatedRunEnd(text, first)
        hasFrac  == intEnd <= Len(text) /\ text[intEnd] = "."
        fracEnd  == IF hasFrac THEN StatedRunEnd(text, intEnd + 1) ELSE intEnd
        hasExp   == fracEnd <= Len(text) /\ text[fracEnd] \in {"e", "E"}
        expSign  == hasExp /\ fracEnd + 1 <= Len(text) /\ text[fracEnd + 1] \in {"-", "+"}
        expFirst == IF expSign THEN fracEnd + 2 ELSE fracEnd + 1
        expEnd   == IF hasExp THEN StatedRunEnd(text, expFirst) ELSE fracEnd
        exponent == IF ~hasExp THEN 0
                    ELSE IF expSign /\ text[fracEnd + 1] = "-"
                    THEN 0 - digitsFrom(text, expFirst, 0)
                    ELSE digitsFrom(text, expFirst, 0)
    IN  [numeric  |-> /\ intEnd > first
                      /\ (hasFrac => fracEnd > intEnd + 1)
                      /\ (hasExp => expEnd > expFirst)
                      /\ expEnd = Len(text) + 1,
         negative |-> first = 2,
         mantissa |-> IF hasFrac
                      THEN digitsFrom(text, intEnd + 1, digitsFrom(text, first, 0))
                      ELSE digitsFrom(text, first, 0),
         scale    |-> exponent - (IF hasFrac THEN fracEnd - intEnd - 1 ELSE 0)]

RECURSIVE StatedPowerOfTen(_)
StatedPowerOfTen(n) == IF n = 0 THEN 1 ELSE 10 * StatedPowerOfTen(n - 1)

\* the entry is a number that is an integer from 0 to 500
StatedIntegerInScale(text) ==
    LET number == StatedNumber(text)
    IN  /\ number.numeric
        /\ (number.negative => number.mantissa = 0)
        /\ IF number.scale >= 0
           THEN number.mantissa * StatedPowerOfTen(number.scale) <= MaxAQI
           ELSE /\ number.mantissa % StatedPowerOfTen(0 - number.scale) = 0
                /\ number.mantissa \div StatedPowerOfTen(0 - number.scale) <= MaxAQI

\* the integer the entry writes down
StatedIntegerOf(text) ==
    LET number == StatedNumber(text)
    IN  IF number.scale >= 0 THEN number.mantissa * StatedPowerOfTen(number.scale)
        ELSE number.mantissa \div StatedPowerOfTen(0 - number.scale)

\* the entry is no number, a negative number or a number above 500
StatedRefusedEntry(text) ==
    LET number == StatedNumber(text)
    IN  \/ ~number.numeric
        \/ (number.negative /\ number.mantissa > 0)
        \/ IF number.scale >= 0
           THEN number.mantissa * StatedPowerOfTen(number.scale) > MaxAQI
           ELSE number.mantissa > MaxAQI * StatedPowerOfTen(0 - number.scale)

(***************************************************************************)
(* C19: a submit hands the page a reading only when the entered value is   *)
(* an integer from 0 to 500, and that reading has this value, the source   *)
(* IOT_SENSOR, the confidence 'uncalibrated' and the freshness 'fresh'; a  *)
(* submit of an entry that is no number, negative or above 500 hands over  *)
(* nothing and leaves isSubmitted and iotData as they were.                *)
(***************************************************************************)
C19_SubmitOnlyOfEntryInScale ==
    [][HandleSubmit =>
          /\ StatedRefusedEntry(manualAQI) => UNCHANGED <<isSubmitted, iotData>>
          /\ iotData' # iotData =>
                /\ StatedIntegerInScale(manualAQI)
                /\ iotData'.aqi = StatedIntegerOf(manualAQI)
                /\ iotData'.source = "IOT_SENSOR"
                /\ iotData'.confidence = "uncalibrated"
                /\ iotData'.freshness = "fresh"]_vars

\* The entry 1e3, the number 1000, has been submitted and the page holds a
\* reading of the panel with the aqi 1.
C19_SubmittedThousand ==
    /\ isSubmitted
    /\ manualAQI = <<"1", "e", "3">>
    /\ StatedRefusedEntry(manualAQI)
    /\ iotData # NullReading
    /\ iotData.source = "IOT_SENSOR"
    /\ iotData.aqi = 1

(***************************************************************************)
(* C21, as stated: every HISTORICAL reading has the freshness 'stale',     *)
(* every reading of the IoT panel has the freshness 'fresh' when it is     *)
(* made, and the freshness of every GOVERNMENT and INTERNATIONAL reading   *)
(* is what calculateFreshness gives for the timestamp of that reading.     *)
(***************************************************************************)
StatedDerivedFreshness ==
    /\ call.fn \in {"fetchGovernmentData", "fetchOpenAQData"} =>
           returned.value.freshness
               = calculateFreshness(returned.value.timestamp, call.now)
    /\ call.fn \in {"handleSubmit", "handleSimulate"} =>
           \A i \in 1..Len(returned.value) : returned.value[i].freshness = "fresh"

C21_HistoricalAlwaysStale ==
    returned.done =>
        /\ StatedDerivedFreshness
        /\ call.fn = "fetchHistoricalData" => returned.value.freshness = "stale"

(***************************************************************************)
(* C21, amended: a HISTORICAL reading has the freshness 'stale' when it    *)
(* has an aqi and 'unavailable' when the city has no historical data;      *)
(* every reading of the IoT panel is 'fresh' when it is made; the          *)
(* freshness of every GOVERNMENT and INTERNATIONAL reading is what         *)
(* calculateFreshness gives for the timestamp of that reading.             *)
(***************************************************************************)
C21_FreshnessSetOrDerived ==
    returned.done =>
        /\ StatedDerivedFreshness
        /\ call.fn = "fetchHistoricalData" =>
               returned.value.freshness
                   = IF returned.value.aqi = Null THEN "unavailable" ELSE "stale"

\* fetchHistoricalData has returned the reading of a city that has no
\* historical data.
C21_HistoricalWithoutData ==
    /\ returned.done
    /\ call.fn = "fetchHistoricalData"
    /\ call.city.id \notin DOMAIN HISTORICAL_DATA
    /\ returned.value.source = "HISTORICAL"
    /\ returned.value.freshness = "unavailable"

(***************************************************************************)
(* C22, as stated: any two readings made for the same source have the same *)
(* confidence level, whatever the data and whatever the outcome of the     *)
(* fetch.  Every reading is compared with one reading of its source: the   *)
(* one made for Delhi at 09:00 of January 1st from a proxy answer with a   *)
(* PM2.5 value of 138.                                                     *)
(***************************************************************************)
StatedReferenceReading(fn) ==
    CASE fn = "fetchGovernmentData" ->
             fetchGovernmentData(INDIAN_CITIES[1], DateGetTime(IsoTimestamp(1, 9, 0, 0, 0)))
      [] fn = "fetchHistoricalData" -> fetchHistoricalData(INDIAN_CITIES[1])
      [] fn = "fetchOpenAQData" ->
             fetchOpenAQData(INDIAN_CITIES[1],
                 Resolved(NoError, DataOf(ArrayOf(<< ResultOf(ArrayOf(
                     << Measurement("pm25",
                                    NumberValue([m |-> <<0, 0, 0, 1104>>, e |-> -45]),
                                    "ug/m3", IsoTimestamp(1, 8, 59, 59, 999)) >>)) >>))),
                 DateGetTime(IsoTimestamp(1, 9, 0, 0, 0)))

C22_SameLevelForSameSource ==
    (returned.done /\ IsAdapterCall(call)) =>
        returned.value.confidence = StatedReferenceReading(call.fn).confidence

(***************************************************************************)
(* C22, amended: a reading that has an aqi carries the level of its source *)
(* (GOVERNMENT high, INTERNATIONAL high, HISTORICAL medium, IOT_SENSOR     *)
(* uncalibrated); a reading of an adapter that has no aqi carries 'low'.   *)
(***************************************************************************)
StatedLevelOf(source) ==
    CASE source = "GOVERNMENT"    -> "high"
      [] source = "INTERNATIONAL" -> "high"
      [] source = "HISTORICAL"    -> "medium"
      [] source = "IOT_SENSOR"    -> "uncalibrated"

C22_LevelBySourceAndAqi ==
    returned.done =>
        /\ IsAdapterCall(call) =>
               /\ returned.value.source = AdapterSource(call)
               /\ returned.value.confidence
                      = IF returned.value.aqi = Null THEN "low"
                        ELSE StatedLevelOf(returned.value.source)
        /\ call.fn \in {"handleSubmit", "handleSimulate"} =>
               \A i \in 1..Len(returned.value) :
                   returned.value[i].confidence = StatedLevelOf("IOT_SENSOR")

\* fetchOpenAQData has returned a reading of the confidence 'low' for a
\* proxy call that was rejected, while its reading of a PM2.5 value has the
\* confidence 'high'.
C22_LowAfterFailedFetch ==
    /\ returned.done
    /\ call.fn = "fetchOpenAQData"
    /\ call.outcome.kind = "rejected"
    /\ returned.value.confidence = "low"
    /\ StatedReferenceReading(call.fn).confidence = "high"

(***************************************************************************)
(* C23.  The readings the page holds and the calls of fetchData.           *)
(***************************************************************************)
\* the readings the three adapters give for a city
StatedFetchedFor(city, govt, intl, hist) ==
    /\ \E now \in DashboardClock : govt = governmentReadings[city, now]
    /\ \E outcome \in DashboardOutcomes, now \in DashboardClock :
           intl = internationalReadings[city, outcome, now]
    /\ hist = historicalReadings[city]

\* the step replaces the three readings by those of the call i, whose last
\* pending promise it resolves
StatedReplacedBy(i) ==
    LET frame == fetching[i]
        pending == { k \in {"govt", "intl", "hist"} : frame[k] = NullReading }
    IN  /\ Cardinality(pending) = 1
        /\ fetching' = SubSeq(fetching, 1, i - 1) \o SubSeq(fetching, i + 1, Len(fetching))
        /\ "govt" \notin pending => governmentData' = frame.govt
        /\ "intl" \notin pending => internationalData' = frame.intl
        /\ "hist" \notin pending => historicalData' = frame.hist
        /\ StatedFetchedFor(frame.city, governmentData', internationalData', historicalData')

\* C23: the government, international and historical readings are replaced
\* together, in the step that resolves the last of the three adapter
\* promises of one call of fetchData, by the three readings of that call;
\* in every state the three are all null (no call has finished) or the
\* three readings the adapters give for one city, so no rendering
\* reconciles a set put together from two calls or from a part of one.
C23_ReadingsOfOneFetch ==
    /\ [](\/ /\ governmentData = NullReading
              /\ internationalData = NullReading
              /\ historicalData = NullReading
          \/ \E city \in DashboardCities :
                 StatedFetchedFor(city, governmentData, internationalData, historicalData))
    /\ [][<<governmentData, internationalData, historicalData>>'
               # <<governmentData, internationalData, historicalData>>
            => \E i \in 1..Len(fetching) : StatedReplacedBy(i)]_vars

\* C23 witness: the page holds the readings of a finished call for one city
\* while a later call for the other city has two of its three promises
\* resolved
C23_HeldWhileNextPartlyResolved ==
    /\ governmentData # NullReading
    /\ \E i \in 1..Len(fetching) :
           /\ fetching[i].city # INDIAN_CITIES[1]
           /\ StatedFetchedFor(INDIAN_CITIES[1], governmentData, internationalData,
                               historicalData)
           /\ fetching[i].hist # NullReading
           /\ fetching[i].govt # NullReading
           /\ fetching[i].intl = NullReading

(***************************************************************************)
(* C25, C26.  Two calls of fetchData under way at a time.                  *)
(***************************************************************************)
\* C25: whenever no call of fetchData is under way, the government,
\* international and historical readings the page holds are the ones the
\* adapters give for the selected city.
C25_HeldAreOfSelectedCity ==
    fetching = <<>>
        => StatedFetchedFor(selectedCity, governmentData, internationalData, historicalData)

\* C25 witness: no call is under way, the second city is selected and the
\* page holds the readings of the first city, whose call ended last
C25_EarlierFetchEndedLast ==
    /\ fetching = <<>>
    /\ selectedCity = INDIAN_CITIES[2]
    /\ StatedFetchedFor(INDIAN_CITIES[1], governmentData, internationalData, historicalData)

\* C26: isLoading is true in every state in which a call of fetchData is
\* under way, and false in every state in which none is.
C26_LoadingIffFetching == isLoading <=> fetching # <<>>

\* C26 witness: the call for the first city has ended and has set isLoading
\* to false while the call for the second city, selected meanwhile, is
\* under way
C26_IdleWhileFetching ==
    /\ ~isLoading
    /\ Len(fetching) = 1
    /\ fetching[1].city = INDIAN_CITIES[2]
    /\ selectedCity = INDIAN_CITIES[2]
    /\ StatedFetchedFor(INDIAN_CITIES[1], governmentData, internationalData, historicalData)

(***************************************************************************)
(* C24.  The reading of the sensor over city changes and the switch.       *)
(***************************************************************************)
\* the sources of the readings of a collection
StatedSourcesOf(rs) == { rs[i].source : i \in DOMAIN rs }

\* C24: a step that changes the city or switches the panel off leaves a
\* reading set without IOT_SENSOR reading, and a reading set without
\* IOT_SENSOR reading gets one only by a step of handleSubmit or
\* handleSimulate; in every state without IOT_SENSOR reading the derived AQI
\* and the agreement of the page are those of the set held: the derived AQI
\* names the sources of the usable readings held, none of them IOT_SENSOR,
\* and the agreement is the one of the stored readings of the three adapters.
C24_NoSensorReadingUntilSubmitted ==
    /\ [][(selectedCity' # selectedCity \/ (enabled /\ ~enabled'))
            => "IOT_SENSOR" \notin StatedSourcesOf(allReadings')]_vars
    /\ [][("IOT_SENSOR" \notin StatedSourcesOf(allReadings)
                /\ "IOT_SENSOR" \in StatedSourcesOf(allReadings'))
            => HandleSubmit \/ HandleSimulate]_vars
    /\ []("IOT_SENSOR" \notin StatedSourcesOf(allReadings)
            => /\ derivedAQI.sources
                      = [i \in DOMAIN StatedUsableOf(allReadings) |->
                             StatedUsableOf(allReadings)[i].source]
               /\ \A i \in DOMAIN derivedAQI.sources :
                      derivedAQI.sources[i] # "IOT_SENSOR"
               /\ pageAgreement = analyzeAgreement(
                      SelectSeq(<<governmentData, internationalData, historicalData>>,
                                LAMBDA r : r # NullReading)))

\* C24 witness: a value was submitted and the city changed afterwards; the
\* page holds the readings of the second city and no IOT_SENSOR reading
C24_CityChangedAfterSubmit ==
    /\ isSubmitted
    /\ selectedCity = INDIAN_CITIES[2]
    /\ governmentData # NullReading
    /\ "IOT_SENSOR" \notin StatedSourcesOf(allReadings)

(***************************************************************************)
(* C27.  The submitted state of the panel and the reading set of the page. *)
(***************************************************************************)
\* C27: whenever the panel is in its submitted state, the reading set of
\* the page holds an IOT_SENSOR reading whose aqi is the value the panel
\* compares, parseInt of the entered text.
C27_SubmittedHasSensorReading ==
    isSubmitted
        => \E i \in DOMAIN allReadings :
               /\ allReadings[i].source = "IOT_SENSOR"
               /\ allReadings[i].aqi = parseInt(manualAQI).n

\* C27 witness: the panel is switched on and in its submitted state for the
\* entered text 500, the second city is selected and the page holds no
\* reading of the sensor
C27_SubmittedWithoutSensorReading ==
    /\ enabled
    /\ isSubmitted
    /\ manualAQI = <<"5", "0", "0">>
    /\ selectedCity = INDIAN_CITIES[2]
    /\ iotData = NullReading

(***************************************************************************)
(* C28.  The two results of one collection.                                *)
(***************************************************************************)
\* C28: once both functions have run on a collection, the derived value is
\* null exactly when the agreement is 'insufficient' with the explanation
\* of no usable reading, and the agreement has a level other than
\* 'insufficient', with a spread that is not null, exactly when the derived
\* sources list has at least 2 entries.
C28_ResultsAgreeOnUsable ==
    pc = "derived"
        => /\ derived.value = Null
                  <=> /\ agreement.level = "insufficient"
                      /\ agreement.explanation
                             = Explanation("No valid data available from any source.",
                                           "", Null)
           /\ (agreement.level # "insufficient" /\ agreement.spread # Null)
                  <=> Len(derived.sources) >= 2
           /\ agreement.level # "insufficient" <=> agreement.spread # Null

\* C28 witness: both functions have run on a collection of three readings
\* of which one is usable: the agreement is 'insufficient', the derived value
\* is not null and the sources list has one entry
C28_OneUsableOfThree ==
    /\ pc = "derived"
    /\ Len(readings) = 3
    /\ agreement.level = "insufficient"
    /\ derived.value # Null
    /\ Len(derived.sources) = 1

(***************************************************************************)
(* C29.  The derived confidence and the mean weight.                       *)
(***************************************************************************)
\* two collections of usable readings of the same mean weight
StatedSameMeanWeight(rs, other) ==
    StatedWeightSum(rs) * Len(other) = StatedWeightSum(other) * Len(rs)

\* C29: once calculateDerivedAQI has run on a collection with a usable
\* reading, the confidence is at least 3 and is the confidence of every
\* other collection of the same mean weight, whatever its number of
\* readings; the confidence is 0 exactly when the value is null.
C29_ConfidenceOfMeanWeight ==
    pc = "derived"
        => LET usable == StatedUsableOf(readings)
           IN  /\ Len(usable) > 0 => derived.confidence >= 3
               /\ Len(usable) > 0
                      => \A other \in TrustedInputs :
                             (Len(other) > 0 /\ StatedSameMeanWeight(usable, other))
                                 => calculateDerivedAQI(other).confidence
                                        = derived.confidence
               /\ derived.confidence = 0 <=> derived.value = Null

\* the bound and the equivalence of C29 without the mean weight
C29_AtLeastThreeOrNull ==
    pc = "derived"
        => /\ Len(StatedUsableOf(readings)) > 0 => derived.confidence >= 3
           /\ derived.confidence = 0 <=> derived.value = Null

\* C29 witness: two government readings followed by three sensor readings
\* got the confidence 44, and the same five readings with the sources
\* alternating get 45: the mean weight is 0.534 in both, 44.5 % of 1.2
C29_SameMeanOtherConfidence ==
    /\ pc = "derived"
    /\ Len(readings) = 5
    /\ derived.confidence = 44
    /\ StatedWeightSum(readings) = 2670
    /\ LET other == <<readings[3], readings[1], readings[4], readings[2], readings[5]>>
       IN  /\ StatedSameMeanWeight(readings, other)
           /\ calculateDerivedAQI(other).confidence = 45

(***************************************************************************)
(* C30.  calculateAQIFromPM25 over the concentrations, in hundredths.      *)
(***************************************************************************)
\* the rows of the breakpoint table in hundredths: cLow, cHigh, iLow, iHigh
StatedRows ==
    << <<0, 1200, 0, 50>>, <<1210, 3540, 51, 100>>, <<3550, 5540, 101, 150>>,
       <<5550, 15040, 151, 200>>, <<15050, 25040, 201, 300>>,
       <<25050, 35040, 301, 400>>, <<35050, 50040, 401, 500>> >>

\* the hundredths of the concentration of a call
StatedHundredths(c) == (CHOOSE p \in Concentrations : p.d = c.pm25.d).hundredths

\* the row i holds the concentration, or the concentration lies between the
\* row i and one of its neighbours
StatedBelongsTo(h, i) ==
    /\ i = 1 \/ StatedRows[i - 1][2] < h
    /\ i = Len(StatedRows) \/ h < StatedRows[i + 1][1]

\* C30: the index returned for a concentration of [0, 500.4] is at least the
\* index of every smaller concentration and lies in the index band of a row
\* the concentration belongs to, between two rows included; an index of 500
\* is returned only for a concentration of the last row or above 500.4.
C30_IndexMonotonicInBand ==
    (call.fn = "calculateAQIFromPM25" /\ returned.done)
        => LET h == StatedHundredths(call)
           IN  /\ h <= 50040
                      => /\ \A c \in Concentrations :
                                c.hundredths <= h
                                    => calculateAQIFromPM25(NumberValue(c.d))
                                           <= returned.value
                         /\ \E i \in DOMAIN StatedRows :
                                /\ StatedBelongsTo(h, i)
                                /\ returned.value \in StatedRows[i][3]..StatedRows[i][4]
               /\ returned.value = 500 => h >= 35050

\* C30 witness: the call for 12.05, between the first two rows, has
\* returned 500, above the 51 returned for 12.1
C30_BetweenRowsBeyondScale ==
    /\ call.fn = "calculateAQIFromPM25"
    /\ returned.done
    /\ StatedHundredths(call) = 1205
    /\ returned.value = 500
    /\ calculateAQIFromPM25(NumberValue([m |-> <<13107, 3276, 13107, 1548>>, e |-> -49])) = 51
====
